---- MODULE Spec2Model ----
(***************************************************************************)
(* A model of the aml event loop core: reference counted event sources,   *)
(* the global id table, the per-loop started list, timer list, idle list  *)
(* and event queue (as the intrusive BSD lists the code uses), start and  *)
(* stop, emit, and the dispatcher.                                         *)
(*                                                                         *)
(* The C functions are pure operators over a memory record M; an action   *)
(* applies one API call (or one dispatcher step between two callbacks)    *)
(* to the current memory.                                                  *)
(***************************************************************************)
EXTENDS Integers, Sequences, FiniteSets, TLC

\* ---- bounds ----
NObj == 3          \* objects (loops and sources) ever allocated
MaxUserRef == 2    \* references the user holds on one object
MaxRef == 4        \* no start or emit when the refcount is already this high
MaxTime == 2       \* the clock stops here
MaxWork == 2       \* entries of work the pool's queue holds, and runs of
                   \* one work function
MaxDuration == 1   \* largest timer duration
NThreads == 2      \* threads that use the id table

NULL == 0
Obj == 1..NObj
Threads == 1..NThreads
Ptr == 0..NObj

\* enum aml_obj_type
AML_OBJ_UNSPEC == "UNSPEC"
AML_OBJ_AML == "AML"
AML_OBJ_HANDLER == "HANDLER"
AML_OBJ_TIMER == "TIMER"
AML_OBJ_TICKER == "TICKER"
AML_OBJ_SIGNAL == "SIGNAL"
AML_OBJ_WORK == "WORK"
AML_OBJ_IDLE == "IDLE"

SourceKinds == {AML_OBJ_HANDLER, AML_OBJ_TIMER, AML_OBJ_TICKER,
                AML_OBJ_SIGNAL, AML_OBJ_WORK, AML_OBJ_IDLE}

\* enum aml_event
AML_EVENT_READ == 1
AML_EVENT_WRITE == 2
EVENT_MASK_DEFAULT == AML_EVENT_READ
\* the bits of pollfd.events and pollfd.revents
\* struct aml_backend of the posix backend: no flags, with mod_fd
AML_BACKEND_EDGE_TRIGGERED == 1
posix_backend == [flags |-> 0, mod_fd |-> TRUE]
POLLIN == 1
POLLPRI == 2
POLLOUT == 4

\* the intrusive lists: obj.link, obj.global_link, timer.link, idle.link
\* (LIST) and obj.event_link (TAILQ)
ListNames == {"obj", "global", "timer", "idle", "event"}

\* the address of a list head's first pointer, of an element's next
\* pointer, and the null address a calloc'ed le_prev holds
HeadAddr(h) == <<"h", h>>
NextAddr(o) == <<"n", o>>
NullAddr == <<"null", 0>>

VARIABLES
    \* ---- memory ----
    alloc,          \* per object: "none" | "live" | "freed"
    type,           \* obj.type
    ref,            \* obj.ref
    id,             \* obj.id
    aml__obj_id,    \* the static id counter
    first,          \* list heads: first[list][head]; head 0 is the global list
    last,           \* event_queue.tqh_last per loop (an address)
    next,           \* next[list][obj]: le_next / tqe_next
    prev,           \* prev[list][obj]: le_prev / tqe_prev (an address)
    timeout,        \* timer.timeout
    deadline,       \* timer.deadline
    revents,        \* handler.revents
    event_mask,     \* handler.event_mask
    parent,         \* handler.parent
    do_exit,        \* aml.do_exit
    backend,        \* aml.backend per loop: [flags, mod_fd]
    be_fds,         \* backend: handlers registered with add_fd, per loop
    be_sigs,        \* backend: signals registered with add_signal, per loop
    be_deadline,    \* backend: last set_deadline per loop (-1: never)
    be_alive,       \* backend state exists (new_state .. del_state)
    be_intr,        \* backend: an interrupt is pending, per loop
    fault,          \* "none" | "abort" (assert/abort) | "segv" | "hang" |
                    \* "join" (blocked in pthread_join)
    uaf,            \* freed memory has been read or written
    nfree,          \* free_fn invocations per object
    pool,           \* the default thread pool and its worker threads
    posix_state,    \* per loop: struct posix_state and its poller thread
    run,            \* the dispatch thread in aml_run and aml_poll
    sigctx,         \* a thread that takes signals, the signal handler on its
                    \* stack, and who holds the mutexes the two share
    hist,           \* history: fifo, the emits not yet dequeued per loop;
                    \* mask, the events emitted per handler since the
                    \* last callback; enq, the entries enqueued per work;
                    \* down, the steps of aml__free taken per loop
    \* ---- the dispatch thread ----
    plan,           \* the sources the program creates: <<[kind, dur], ...>>
    now,            \* the loop clock
    pc,             \* "none" | "drain" | "cb" | "idle" | "idlecb" | "poll"
    dl,             \* the loop being dispatched
    cur,            \* the source whose callback is running
    \* ---- threads that use the id table ----
    thr,            \* per thread: [at, obj, r, refs]
    \* ---- observation ----
    obs,            \* what the timers did: [fired, last, cbs, ncb, t0]
    call,           \* the call the last step made: [op, loop, obj, rc, pre, ok]
    userRefs,       \* references the user owns per object
    quiet           \* aml_stop returned for the object and no emit since

memVars == <<alloc, type, ref, id, aml__obj_id, first, last, next, prev,
             timeout, deadline, revents, event_mask, parent, do_exit,
             backend, be_fds, be_sigs,
             be_deadline, be_alive, be_intr, fault, uaf, nfree, pool,
             posix_state, run, sigctx, hist>>
vars == <<alloc, type, ref, id, aml__obj_id, first, last, next, prev,
          timeout, deadline, revents, event_mask, parent, do_exit,
             backend, be_fds, be_sigs,
          be_deadline, be_alive, be_intr, fault, uaf, nfree, pool,
          posix_state, run, sigctx, hist,
          plan, now, pc, dl, cur, thr,
          obs, call, userRefs, quiet>>

\* the memory as one record, for the operators below; emitted collects the
\* objects aml_emit is called for during the call; env holds what the
\* environment does during the call: add_ok, whether a backend registration
\* or a thread pool enqueue succeeds, and traps, whether an access to freed
\* memory traps (or else goes on with the values the memory last held)
Mem(env) ==
    [env |-> env, now |-> now, alloc |-> alloc, type |-> type, ref |-> ref, id |-> id,
     aml__obj_id |-> aml__obj_id, first |-> first, last |-> last,
     next |-> next, prev |-> prev, timeout |-> timeout,
     deadline |-> deadline, revents |-> revents,
     event_mask |-> event_mask, parent |-> parent, backend |-> backend,
     do_exit |-> do_exit, be_fds |-> be_fds, be_sigs |-> be_sigs,
     be_deadline |-> be_deadline, be_alive |-> be_alive, be_intr |-> be_intr,
     fault |-> fault,
     uaf |-> uaf, nfree |-> nfree, pool |-> pool,
     posix_state |-> posix_state, run |-> run, sigctx |-> sigctx,
     hist |-> hist,
     emitted |-> {},
     fired |-> [o \in Obj |-> -1]]

SetMem(M) ==
    /\ alloc' = M.alloc /\ type' = M.type /\ ref' = M.ref /\ id' = M.id
    /\ aml__obj_id' = M.aml__obj_id /\ first' = M.first /\ last' = M.last
    /\ next' = M.next /\ prev' = M.prev /\ timeout' = M.timeout
    /\ deadline' = M.deadline /\ revents' = M.revents /\ parent' = M.parent
    /\ event_mask' = M.event_mask /\ backend' = M.backend
    /\ do_exit' = M.do_exit /\ be_fds' = M.be_fds /\ be_sigs' = M.be_sigs
    /\ be_deadline' = M.be_deadline /\ be_alive' = M.be_alive
    /\ be_intr' = M.be_intr
    /\ fault' = M.fault /\ uaf' = M.uaf /\ nfree' = M.nfree
    /\ pool' = M.pool /\ posix_state' = M.posix_state /\ run' = M.run
    /\ sigctx' = M.sigctx /\ hist' = M.hist

\* bitwise or of two event masks (bits AML_EVENT_READ, AML_EVENT_WRITE)
BitOr(a, b) ==
    (IF a % 2 = 1 \/ b % 2 = 1 THEN 1 ELSE 0)
    + (IF (a \div 2) % 2 = 1 \/ (b \div 2) % 2 = 1 THEN 2 ELSE 0)

\* ---- memory access ----

\* An access to the objects os: a freed one is undefined behaviour, which
\* either traps or goes on with the values the memory last held.
Access(M, os, body) ==
    IF M.fault # "none" THEN M
    ELSE IF \E o \in os : o # NULL /\ M.alloc[o] = "freed"
         THEN IF M.env.traps
              THEN [M EXCEPT !.fault = "segv", !.uaf = TRUE]
              ELSE [body EXCEPT !.uaf = TRUE]
         ELSE body

Crash(M, how) == [M EXCEPT !.fault = how]

\* more iterations than any terminating run of a loop of the code makes
\* (each one takes or drops a reference, or moves a deadline forward): a
\* loop that gets this far never ends, and the process hangs
LoopLimit == NObj * (MaxRef + MaxUserRef + MaxTime + 4)

\* more emits than the event queue of a loop ever holds at a time
FifoCap == NObj * MaxRef

\* the object an address lies in (NULL for a list head or a null address)
AddrObj(T, a) == IF a[1] = "n" THEN a[2]
                 ELSE IF a[1] = "h" /\ T # "global" THEN a[2] ELSE NULL

\* *a = v
StorePtr(M, T, a, v) ==
    IF a[1] = "null" THEN Crash(M, "segv")
    ELSE IF a[1] = "h" THEN [M EXCEPT !.first[T][a[2]] = v]
    ELSE [M EXCEPT !.next[T][a[2]] = v]

\* ---- sys/queue.h ----

\* LIST_INSERT_HEAD(head, elm, field)
LIST_INSERT_HEAD(M, T, h, e) ==
    LET f == M.first[T][h]
        M1 == [M EXCEPT !.next[T][e] = f]
        M2 == IF f # NULL THEN [M1 EXCEPT !.prev[T][f] = NextAddr(e)] ELSE M1
    IN  Access(M, {e, f, AddrObj(T, HeadAddr(h))},
               [M2 EXCEPT !.first[T][h] = e, !.prev[T][e] = HeadAddr(h)])

\* LIST_REMOVE(elm, field)
LIST_REMOVE(M, T, e) ==
    LET n == M.next[T][e]
        p == M.prev[T][e]
        M1 == IF n # NULL THEN [M EXCEPT !.prev[T][n] = p] ELSE M
    IN  Access(M, {e, n, AddrObj(T, p)}, StorePtr(M1, T, p, n))

\* TAILQ_INSERT_TAIL(head, elm, field)
TAILQ_INSERT_TAIL(M, h, e) ==
    LET T == "event"
        l == M.last[h]
        M1 == [M EXCEPT !.next[T][e] = NULL, !.prev[T][e] = l]
        M2 == StorePtr(M1, T, l, e)
    IN  Access(M, {e, h, AddrObj(T, l)},
               IF M2.fault # "none" THEN M2
               ELSE [M2 EXCEPT !.last[h] = NextAddr(e)])

\* TAILQ_REMOVE(head, elm, field)
TAILQ_REMOVE(M, h, e) ==
    LET T == "event"
        n == M.next[T][e]
        p == M.prev[T][e]
        M1 == IF n # NULL THEN [M EXCEPT !.prev[T][n] = p]
              ELSE [M EXCEPT !.last[h] = p]
    IN  Access(M, {e, h, n, AddrObj(T, p)}, StorePtr(M1, T, p, n))

\* LIST_FOREACH(elem, head, field): the elements in traversal order; a walk
\* that comes back to an element it has seen never ends (NULL is never
\* reached), which the second component reports
RECURSIVE ListWalk(_, _, _, _)
ListWalk(M, T, e, seen) ==
    IF e = NULL THEN [elems |-> seen, ends |-> TRUE]
    ELSE IF \E i \in 1..Len(seen) : seen[i] = e
         THEN [elems |-> seen, ends |-> FALSE]
         ELSE ListWalk(M, T, M.next[T][e], Append(seen, e))

ListElems(M, T, h) == ListWalk(M, T, M.first[T][h], <<>>).elems
ListSet(M, T, h) == {ListElems(M, T, h)[i] : i \in 1..Len(ListElems(M, T, h))}

\* a function result: the memory after the call and the value returned
R(M, rc) == [m |-> M, rc |-> rc]

\* ---- references and the id table ----

\* aml__obj_global_ref
\* (a variant that numbers a source by the length of the id list)
aml__obj_global_ref_counted(M, o) ==
    LIST_INSERT_HEAD([M EXCEPT !.id[o] = Cardinality(ListSet(M, "global", 0)),
                               !.aml__obj_id = @ + 1], "global", 0, o)

aml__obj_global_ref(M, o) ==
    LIST_INSERT_HEAD([M EXCEPT !.id[o] = M.aml__obj_id,
                               !.aml__obj_id = @ + 1], "global", 0, o)

\* aml_ref
aml_ref(M, o) == Access(M, {o}, [M EXCEPT !.ref[o] = @ + 1])

\* aml__free_handler, aml__free_timer, aml__free_signal, aml__free_work,
\* aml__free_idle: free_fn(userdata); free(self)
aml__free_source(M, o) ==
    Access(M, {o}, [M EXCEPT !.nfree[o] = @ + 1, !.alloc[o] = "freed"])

\* ---- backend (struct aml_backend) ----

\* backend.add_fd via aml__add_fd
aml__add_fd(M, l, h) ==
    IF M.env.add_ok THEN R([M EXCEPT !.be_fds[l] = @ \cup {h}], 0)
    ELSE R(M, -1)

\* backend.del_fd via aml__del_fd
aml__del_fd(M, l, h) == R([M EXCEPT !.be_fds[l] = @ \ {h}], 0)

\* aml__mod_fd: backend.mod_fd arms the registration of h anew; a backend
\* without it has h deleted and added
aml__mod_fd(M, l, h) ==
    LET M0 == [M EXCEPT !.hist.modfd = @ \cup {h}]
    IN  IF M.backend[l].mod_fd THEN R(M0, 0)
        ELSE aml__add_fd(aml__del_fd(M0, l, h).m, l, h)

\* backend.add_signal
backend_add_signal(M, l, s) ==
    IF M.env.add_ok THEN R([M EXCEPT !.be_sigs[l] = @ \cup {s}], 0)
    ELSE R(M, -1)

\* backend.del_signal
backend_del_signal(M, l, s) ==
    IF s \in M.be_sigs[l] THEN R([M EXCEPT !.be_sigs[l] = @ \ {s}], 0)
    ELSE R(M, -1)

\* backend.set_deadline via aml__set_deadline
aml__set_deadline(M, l, d) == [M EXCEPT !.be_deadline[l] = d]

\* ---- the default thread pool ----

\* struct default_work; the entry that ends the workers has no work and the
\* id ULLONG_MAX
ULLONG_MAX == -1
Job(i, w) == [aml_id |-> i, work |-> w]

\* the statics of the pool before any call: default_work_queue,
\* n_thread_pool_users, n_threads, work_queue_mutex with work_queue_cond,
\* thread_pool (whether it is allocated); per thread its place in worker_fn,
\* its entry and the loop it has upgraded; per loop have_thread_pool;
\* observed: ran, the times the work function of a work has returned, asked, the n of the latest acquire, joiner, the loop whose
\* finalization waits in pthread_join
NoPool ==
    [queue |-> <<>>, users |-> 0, n_threads |-> 0, mutex |-> "static",
     thread_pool |-> FALSE,
     at |-> [t \in Threads |-> "none"],
     job |-> [t \in Threads |-> Job(ULLONG_MAX, NULL)],
     loop |-> [t \in Threads |-> NULL],
     have |-> [o \in Obj |-> FALSE],
     ran |-> [o \in Obj |-> 0],
     asked |-> 0, joiner |-> NULL]

\* enqueue_work: calloc fails when the environment says so or the queue
\* holds MaxWork entries of work; locking a destroyed mutex is undefined
enqueue_work(M, aml, work, broadcast) ==
    IF M.fault # "none" THEN R(M, -1)
    ELSE IF ~M.env.add_ok \/ (work # NULL /\ Len(M.pool.queue) >= MaxWork)
    THEN R(M, -1)
    ELSE IF M.pool.mutex = "destroyed" /\ M.env.traps
    THEN R(Crash(M, "hang"), -1)
    ELSE R([M EXCEPT
              !.pool.queue =
                  Append(@, Job(IF aml # NULL THEN M.id[aml] ELSE ULLONG_MAX,
                                work)),
              !.hist.enq =
                  IF work # NULL /\ @[work] <= MaxWork
                  THEN [@ EXCEPT ![work] = @ + 1] ELSE @], 0)

\* thread_pool_enqueue_default, as backend.thread_pool_enqueue
backend_thread_pool_enqueue(M, l, w) == enqueue_work(M, l, w, 0)

\* thread_pool_acquire_default: realloc fails when the environment says so;
\* pthread_create starts thread_pool[i] for n_threads <= i < n
thread_pool_acquire_default(M, l, n) ==
    LET P == M.pool
        M1 == [M EXCEPT !.pool.mutex = IF P.n_threads = 0 THEN "init" ELSE @]
    IN  IF n > P.n_threads /\ ~M.env.add_ok THEN R(M1, -1)
        ELSE R([M1 EXCEPT
                  !.pool.thread_pool = IF n > P.n_threads THEN TRUE ELSE @,
                  !.pool.at = [t \in Threads |->
                                 IF t > P.n_threads /\ t <= n THEN "wait"
                                 ELSE @[t]],
                  !.pool.n_threads = IF n > @ THEN n ELSE @,
                  !.pool.users = @ + 1,
                  !.pool.asked = n], 0)

\* aml_require_workers (n >= 0)
aml_require_workers(M, l, n) ==
    LET acquired(r) ==
            IF r.rc < 0 THEN R(r.m, -1)
            ELSE R([r.m EXCEPT !.pool.have[l] = TRUE], 0)
    IN  acquired(thread_pool_acquire_default(M, l, n))

\* reap_threads after the last pthread_join has returned
reap_threads_joined(M) ==
    [M EXCEPT !.pool.at = [t \in Threads |->
                             IF t <= M.pool.n_threads THEN "exited" ELSE @[t]],
              !.pool.thread_pool = FALSE,
              !.pool.mutex = "destroyed",
              !.pool.queue = <<>>,
              !.pool.joiner = NULL]

\* reap_threads, called while l is finalized: the entry that ends the workers
\* is enqueued, then the threads are joined: thread_pool[i] is read through a
\* null pointer when the array has been freed; when every worker waits on an
\* empty queue they all take the entry and exit; otherwise the caller stays
\* in pthread_join until they have
reap_threads(M, l) ==
    LET queued(M1) ==
            IF M1.fault # "none" THEN M1
            ELSE IF M.pool.n_threads > 0 /\ ~M.pool.thread_pool
            THEN Crash(M1, "segv")
            ELSE IF /\ M.pool.queue = <<>>
                    /\ \A t \in 1..M.pool.n_threads : M.pool.at[t] = "wait"
            THEN reap_threads_joined(M1)
            ELSE [M1 EXCEPT !.fault = "join", !.pool.joiner = l]
    IN  queued(enqueue_work(M, NULL, NULL, 1).m)

\* thread_pool_release_default
thread_pool_release_default(M, l) ==
    LET M1 == [M EXCEPT !.pool.users = @ - 1]
    IN  IF M1.pool.users = 0 THEN reap_threads(M1, l) ELSE M1

\* backend.del_state
backend_del_state(M, l) ==
    [M EXCEPT !.be_alive[l] = FALSE, !.be_fds[l] = {}]

\* aml_interrupt with a backend that has the interrupt hook: for
\* posix_interrupt, SIGUSR1 is pending for the poller thread
aml_interrupt(M, l) == Access(M, {l}, [M EXCEPT !.be_intr[l] = TRUE])

\* ---- the started list ----

\* aml__obj_is_started_unlocked
aml__obj_is_started_unlocked(M, l, o) ==
    LET w == ListWalk(M, "obj", M.first["obj"][l], <<>>)
    IN  \E i \in 1..Len(w.elems) : w.elems[i] = o

\* aml_is_started
aml_is_started(M, l, o) == aml__obj_is_started_unlocked(M, l, o)

\* aml__obj_try_add without the test for a started source
aml__obj_try_add_again(M, l, o) ==
    IF M.fault # "none" THEN R(M, -1)
    ELSE R(LIST_INSERT_HEAD(aml_ref(M, o), "obj", l, o), 0)

\* aml__obj_try_add
aml__obj_try_add(M, l, o) ==
    IF M.fault # "none" THEN R(M, -1)
    ELSE IF ~aml__obj_is_started_unlocked(M, l, o)
         THEN R(LIST_INSERT_HEAD(aml_ref(M, o), "obj", l, o), 0)
         ELSE R(M, -1)

\* aml__get_timer_with_earliest_deadline: the first timer of the list that
\* no other timer beats (NULL if the list is empty)
RECURSIVE EarliestOf(_, _, _)
EarliestOf(M, elems, best) ==
    IF elems = <<>> THEN best
    ELSE IF best = NULL \/ M.deadline[Head(elems)] < M.deadline[best]
         THEN EarliestOf(M, Tail(elems), Head(elems))
         ELSE EarliestOf(M, Tail(elems), best)

\* (a variant that takes the timers in list order, whatever their deadlines)
aml__get_timer_in_list_order(M, l) ==
    LET expired == SelectSeq(ListElems(M, "timer", l),
                             LAMBDA t : M.deadline[t] <= M.now)
    IN  IF expired # <<>> THEN Head(expired) ELSE M.first["timer"][l]

aml__get_timer_with_earliest_deadline(M, l) ==
    EarliestOf(M, ListElems(M, "timer", l), NULL)

\* the history of an emit that appends o to the event queue of l
Appended(M, l, o) ==
    [M EXCEPT !.hist.fifo[l] = IF M.hist.on /\ Len(@) < FifoCap
                               THEN Append(@, o) ELSE @]

\* the history of a dequeue from the event queue of l
Dequeued(M, l) ==
    [M EXCEPT !.hist.fifo[l] = IF @ = <<>> THEN @ ELSE Tail(@)]

\* aml_emit (emitted records the call, for observation)
aml_emit(M, l, o, rev) ==
    LET M0 == [M EXCEPT !.emitted = @ \cup {o},
                        !.hist.mask[o] = IF /\ M.hist.on
                                            /\ M.type[o] = AML_OBJ_HANDLER
                                         THEN BitOr(@, rev) ELSE @,
                        !.hist.owed = IF /\ M.hist.on /\ rev # 0
                                            /\ M.type[o] = AML_OBJ_HANDLER
                                         THEN @ \cup {o} ELSE @]
    IN  IF M.fault # "none" THEN M
        ELSE IF M.type[o] = AML_OBJ_HANDLER /\ M.revents[o] # 0
        THEN Access(M0, {o}, [M0 EXCEPT !.revents[o] = BitOr(@, rev)])
        ELSE LET M1 == IF M.type[o] = AML_OBJ_HANDLER
                       THEN [M0 EXCEPT !.revents[o] = BitOr(@, rev)]
                       ELSE M0
             IN  Access(M0, {o, l},
                        aml_ref(TAILQ_INSERT_TAIL(Appended(M1, l, o), l, o),
                                o))

RECURSIVE aml_unref(_, _)

\* aml__obj_remove_unlocked, aml__obj_remove
aml__obj_remove_unlocked(M, l, o) == aml_unref(LIST_REMOVE(M, "obj", o), o)

aml__obj_remove(M, l, o) == aml__obj_remove_unlocked(M, l, o)

\* aml__obj_try_remove that keeps the reference of the started list
aml__obj_try_remove_kept(M, l, o) ==
    IF M.fault # "none" THEN R(M, -1)
    ELSE IF aml__obj_is_started_unlocked(M, l, o)
         THEN R(LIST_REMOVE(M, "obj", o), 0)
         ELSE R(M, -1)

\* aml__obj_try_remove
aml__obj_try_remove(M, l, o) ==
    IF M.fault # "none" THEN R(M, -1)
    ELSE IF aml__obj_is_started_unlocked(M, l, o)
         THEN R(aml__obj_remove_unlocked(M, l, o), 0)
         ELSE R(M, -1)

\* ---- stop ----

\* aml__stop_handler
aml__stop_handler(M, l, h) ==
    LET r == aml__del_fd(M, l, h)
    IN  IF r.rc < 0 THEN R(r.m, -1)
        ELSE R(Access(r.m, {h}, [r.m EXCEPT !.parent[h] = NULL,
                                            !.hist.owed = @ \ {h}]), 0)

\* aml__stop_timer
aml__stop_timer(M, l, t) == R(LIST_REMOVE(M, "timer", t), 0)

\* aml__stop_signal
aml__stop_signal(M, l, s) == backend_del_signal(M, l, s)

\* aml__stop_work
aml__stop_work(M, l, w) == R(M, 0)

\* aml__stop_idle
aml__stop_idle(M, l, i) == R(LIST_REMOVE(M, "idle", i), 0)

\* aml__stop_unchecked
aml__stop_unchecked(M, l, o) ==
    IF M.fault # "none" THEN R(M, -1)
    ELSE IF M.alloc[o] = "freed" /\ M.env.traps
    THEN R([M EXCEPT !.fault = "segv", !.uaf = TRUE], -1)
    ELSE LET k == M.type[o]
             r == CASE k = AML_OBJ_AML -> R(M, -1)
                    [] k = AML_OBJ_HANDLER -> aml__stop_handler(M, l, o)
                    [] k \in {AML_OBJ_TIMER, AML_OBJ_TICKER} ->
                           aml__stop_timer(M, l, o)
                    [] k = AML_OBJ_SIGNAL -> aml__stop_signal(M, l, o)
                    [] k = AML_OBJ_WORK -> aml__stop_work(M, l, o)
                    [] k = AML_OBJ_IDLE -> aml__stop_idle(M, l, o)
                    [] OTHER -> R(Crash(M, "abort"), -1)
         IN  IF M.alloc[o] = "freed" THEN R([r.m EXCEPT !.uaf = TRUE], r.rc)
             ELSE r

\* aml_stop without the reference it holds over the call
aml_stop_unheld(M, l, o) ==
    LET removed(r) ==
            IF r.rc >= 0 THEN aml__stop_unchecked(r.m, l, o).m ELSE r.m
    IN  R(aml_unref(removed(aml__obj_try_remove(M, l, o)), o), 0)

\* aml_stop
aml_stop(M, l, o) ==
    LET removed(r) ==
            IF r.rc >= 0 THEN aml__stop_unchecked(r.m, l, o).m ELSE r.m
    IN  R(aml_unref(removed(aml__obj_try_remove(aml_ref(M, o), l, o)), o), 0)

\* ---- loop teardown ----

\* the history of a step of aml__free(l)
Logged(M, l, step) == [M EXCEPT !.hist.down[l] = Append(@, step)]

\* aml__free, first loop: stop and remove what is still started
RECURSIVE aml__free_started(_, _, _)
aml__free_started(M, l, n) ==
    IF M.fault # "none" \/ M.first["obj"][l] = NULL THEN M
    ELSE IF n = 0 THEN Crash(M, "hang")
    ELSE LET obj == M.first["obj"][l]
             M1 == aml__stop_unchecked(Logged(M, l, "stop"), l, obj).m
         IN  aml__free_started(aml__obj_remove_unlocked(M1, l, obj), l, n - 1)

\* aml__free, second loop: drop what is still queued
RECURSIVE aml__free_queued(_, _, _)
aml__free_queued(M, l, n) ==
    IF M.fault # "none" \/ M.first["event"][l] = NULL THEN M
    ELSE IF n = 0 THEN Crash(M, "hang")
    ELSE LET obj == M.first["event"][l]
         IN  aml__free_queued(
                 aml_unref(TAILQ_REMOVE(Dequeued(Logged(M, l, "drop"), l),
                                        l, obj), obj), l,
                 n - 1)

\* aml__free after thread_pool_release has returned
aml__free_released(M, l) ==
    LET del_state(M1) ==
            IF M1.fault # "none" THEN M1
            ELSE backend_del_state(Logged(M1, l, "del_state"), l)
        free(M3) == IF M3.fault # "none" THEN M3
                    ELSE Access(M3, {l}, [Logged(M3, l, "free")
                                            EXCEPT !.alloc[l] = "freed"])
    IN  free(aml__free_queued(del_state(M), l, LoopLimit))

\* aml__free
aml__free(M, l) ==
    LET release(M1) ==
            IF M1.fault # "none" \/ ~M1.pool.have[l] THEN M1
            ELSE thread_pool_release_default(Logged(M1, l, "release"), l)
    IN  aml__free_released(release(aml__free_started(M, l, LoopLimit)), l)

\* the decrement alone: the id list keeps the object
aml_unref_locked_listed(M, o) ==
    Access(M, {o}, [M EXCEPT !.ref[o] = @ - 1])

\* aml_unref, the critical section under aml__ref_mutex: the decrement and,
\* at zero, the removal from the id list
aml_unref_locked(M, o) ==
    LET r == M.ref[o] - 1
        M1 == [M EXCEPT !.ref[o] = r]
    IN  Access(M, {o}, IF r = 0 THEN LIST_REMOVE(M1, "global", o) ELSE M1)

\* aml_unref after the critical section, r the value the decrement gave
aml_unref_finalize(M, o, r) ==
    IF M.fault # "none" THEN M
    ELSE IF r < 0 THEN Crash(M, "abort")
    ELSE IF r > 0 THEN M
    ELSE IF M.type[o] = AML_OBJ_AML THEN aml__free(M, o)
    ELSE IF M.type[o] \in SourceKinds THEN aml__free_source(M, o)
    ELSE Crash(M, "abort")

\* aml_unref
aml_unref(M, o) ==
    aml_unref_finalize(aml_unref_locked(M, o), o, M.ref[o] - 1)

\* aml_try_ref: the first object of the id list with this id, with one
\* more reference, or NULL
aml_try_ref(M, i) ==
    LET w == ListWalk(M, "global", M.first["global"][0], <<>>)
        hits == {n \in 1..Len(w.elems) : M.id[w.elems[n]] = i}
        n == IF hits = {} THEN Len(w.elems)
             ELSE CHOOSE k \in hits : \A j \in hits : k <= j
        seen == {w.elems[k] : k \in 1..n}
        o == IF hits = {} THEN NULL ELSE w.elems[n]
        M1 == IF o # NULL THEN [M EXCEPT !.ref[o] = @ + 1] ELSE M
        M2 == Access(M, seen,
                     IF hits = {} /\ ~w.ends THEN Crash(M, "hang") ELSE M1)
    IN  R(M2, IF M2.fault # "none" THEN NULL ELSE o)

\* ---- start ----

\* aml__start_handler
aml__start_handler(M, l, h) ==
    LET r == aml__add_fd(M, l, h)
    IN  IF r.rc < 0 THEN R(r.m, -1)
        ELSE R([r.m EXCEPT !.parent[h] = l], 0)

\* aml__start_timer
aml__start_timer(M, l, t) ==
    LET M1 == LIST_INSERT_HEAD([M EXCEPT !.deadline[t] = M.now + M.timeout[t]],
                               "timer", l, t)
    IN  IF M.timeout[t] = 0
        THEN IF M.type[t] = AML_OBJ_TICKER THEN R(Crash(M1, "abort"), -1)
             ELSE R(aml_interrupt(aml_emit(aml_stop(M1, l, t).m, l, t, 0), l), 0)
        ELSE IF aml__get_timer_with_earliest_deadline(M1, l) = t
             THEN R(aml__set_deadline(M1, l, M1.deadline[t]), 0)
             ELSE R(M1, 0)

\* aml__start_signal
aml__start_signal(M, l, s) == backend_add_signal(M, l, s)

\* aml__start_work
aml__start_work(M, l, w) == backend_thread_pool_enqueue(M, l, w)

\* aml__start_idle
aml__start_idle(M, l, i) == R(LIST_INSERT_HEAD(M, "idle", l, i), 0)

\* aml__start_unchecked
aml__start_unchecked(M, l, o) ==
    IF M.fault # "none" THEN R(M, -1)
    ELSE LET k == M.type[o]
         IN  CASE k = AML_OBJ_AML -> R(M, -1)
               [] k = AML_OBJ_HANDLER -> aml__start_handler(M, l, o)
               [] k \in {AML_OBJ_TIMER, AML_OBJ_TICKER} ->
                      aml__start_timer(M, l, o)
               [] k = AML_OBJ_SIGNAL -> aml__start_signal(M, l, o)
               [] k = AML_OBJ_WORK -> aml__start_work(M, l, o)
               [] k = AML_OBJ_IDLE -> aml__start_idle(M, l, o)
               [] OTHER -> R(Crash(M, "abort"), -1)

\* aml_start
aml_start(M, l, o) ==
    LET started(s) ==
            IF s.rc = 0 THEN R(s.m, 0)
            ELSE R(aml__obj_remove(s.m, l, o), -1)
        added(a) ==
            IF a.rc < 0 THEN R(a.m, -1)
            ELSE started(aml__start_unchecked(a.m, l, o))
    IN  added(aml__obj_try_add(M, l, o))

\* ---- construction ----

\* the next object calloc returns
NextSlot == CHOOSE o \in Obj : alloc[o] = "none" /\ \A p \in Obj : p < o => alloc[p] # "none"

\* aml_new (a backend with an interrupt hook: no self pipe)
aml_new(M, o) ==
    aml__obj_global_ref(
        [M EXCEPT !.alloc[o] = "live", !.type[o] = AML_OBJ_AML, !.ref[o] = 1,
                  !.last[o] = HeadAddr(o), !.be_alive[o] = TRUE], o)

\* aml_handler_new, aml_timer_new, aml_ticker_new, aml_signal_new,
\* aml_work_new, aml_idle_new
\* (their calloc and field assignments, before aml__obj_global_ref)
aml_source_calloc(M, o, k, d) ==
    [M EXCEPT !.alloc[o] = "live", !.type[o] = k, !.ref[o] = 1,
              !.timeout[o] = d,
              !.event_mask[o] = IF k = AML_OBJ_HANDLER
                                THEN EVENT_MASK_DEFAULT ELSE @]

aml_source_new(M, o, k, d) ==
    aml__obj_global_ref(aml_source_calloc(M, o, k, d), o)

\* ---- the posix backend (struct posix_state) ----

\* posix_new_state: the poller thread is at the top of posix_poll_thread;
\* poller is its place there, n the nfds it has in hand, ready the handlers
\* whose fd has become ready
NoPosix ==
    [poller |-> "apply", n |-> 0, nfds |-> 0, waiting_for_dispatch |-> FALSE,
     pipe |-> 0, ready |-> {}, revents |-> [o \in Obj |-> 0]]

\* the bit b (a power of two) is set in x
Bit(x, b) == (x \div b) % 2 = 1

\* posix_poll_events_to_aml_events
posix_poll_events_to_aml_events(poll_events) ==
    BitOr(IF Bit(poll_events, POLLIN) \/ Bit(poll_events, POLLPRI)
          THEN AML_EVENT_READ ELSE 0,
          IF Bit(poll_events, POLLOUT) THEN AML_EVENT_READ ELSE 0)

\* posix_get_event_mask
posix_get_event_mask(M, h) ==
    (IF Bit(M.event_mask[h], AML_EVENT_READ) THEN POLLIN + POLLPRI ELSE 0)
    + (IF Bit(M.event_mask[h], AML_EVENT_WRITE) THEN POLLOUT ELSE 0)

\* aml_set_event_mask: a started handler is registered anew, which
\* posix_mod_fd_op does with posix_get_event_mask when the poller thread
\* next applies its fd ops
aml_set_event_mask(M, h, mask) ==
    LET M1 == [M EXCEPT !.event_mask[h] = mask]
        l == M.parent[h]
    IN  IF l # NULL /\ aml_is_started(M, l, h)
        THEN aml__mod_fd(M1, l, h).m ELSE M1

\* the dispatch thread is outside aml_run and aml_poll; at is its place in
\* aml_run, timeout the argument of the aml_poll under way, owed whether
\* aml_interrupt has been called and no aml_poll has returned since
NoRun == [at |-> "out", loop |-> NULL, timeout |-> 0, owed |-> FALSE]

\* posix_do_poll when poll() reports the handlers hs: aml_emit for each
RECURSIVE posix_do_poll(_, _, _)
posix_do_poll(M, l, hs) ==
    IF hs = {} THEN M
    ELSE LET h == CHOOSE x \in hs : \A y \in hs : x <= y
             events == posix_poll_events_to_aml_events(
                           M.posix_state[l].revents[h])
         IN  posix_do_poll(aml_emit(M, l, h, events), l, hs \ {h})

\* posix_poll once its wait is over: the result is taken and reset, and the
\* event pipe is read empty when it is positive
posix_poll(M, l, tmo) ==
    LET nfds == M.posix_state[l].nfds
    IN  R([M EXCEPT !.posix_state[l].nfds = 0,
                    !.posix_state[l].pipe = IF nfds > 0 THEN 0 ELSE @],
          nfds)

\* posix_post_dispatch
posix_post_dispatch(M, l) ==
    [M EXCEPT !.posix_state[l].waiting_for_dispatch = FALSE]

\* aml__post_dispatch
aml__post_dispatch(M, l) == posix_post_dispatch(M, l)

\* aml_poll
aml_poll(M, l, tmo) == posix_poll(M, l, tmo)

\* the end of aml_dispatch, which aml_run goes on from
aml_dispatch_return(M, l) ==
    [aml__post_dispatch(M, l) EXCEPT
        !.run.at = IF @ = "dispatch" THEN "test" ELSE @]

\* aml_exit: the posix backend has no exit hook
aml_exit(M, l) == Access(M, {l}, [M EXCEPT !.do_exit[l] = TRUE])

\* ---- the dispatcher ----

\* aml_set_duration
aml_set_duration(M, o, d) ==
    IF M.type[o] \in {AML_OBJ_TIMER, AML_OBJ_TICKER}
    THEN Access(M, {o}, [M EXCEPT !.timeout[o] = d])
    ELSE Crash(M, "abort")

\* (a variant in which aml__handle_timeout leaves a timer whose deadline is
\* the time of the dispatch for the next one)
RECURSIVE aml__handle_timeouts_late(_, _, _, _)
aml__handle_timeouts_late(M, l, t0, n) ==
    LET t == aml__get_timer_with_earliest_deadline(M, l)
    IN  IF M.fault # "none" \/ t = NULL THEN M
        ELSE IF M.deadline[t] >= t0 THEN M
        ELSE IF n = 0 THEN Crash(M, "hang")
        ELSE LET emitted(M1) ==
                     IF M1.type[t] = AML_OBJ_TIMER
                     THEN aml_stop(M1, l, t).m
                     ELSE IF M1.type[t] = AML_OBJ_TICKER
                     THEN Access(M1, {t}, [M1 EXCEPT !.deadline[t] =
                                               @ + M1.timeout[t]])
                     ELSE Crash(M1, "abort")
             IN  aml__handle_timeouts_late(
                     emitted(aml_emit([M EXCEPT !.fired[t] = M.deadline[t]],
                                      l, t, 0)),
                     l, t0, n - 1)

\* aml__handle_timeout, repeated while it returns true (fired records the
\* deadline each timer is emitted at, for observation)
RECURSIVE aml__handle_timeouts(_, _, _, _)
aml__handle_timeouts(M, l, t0, n) ==
    LET t == aml__get_timer_with_earliest_deadline(M, l)
    IN  IF M.fault # "none" \/ t = NULL THEN M
        ELSE IF M.deadline[t] > t0 THEN M
        ELSE IF n = 0 THEN Crash(M, "hang")
        ELSE LET emitted(M1) ==
                     IF M1.type[t] = AML_OBJ_TIMER
                     THEN aml_stop(M1, l, t).m
                     ELSE IF M1.type[t] = AML_OBJ_TICKER
                     THEN Access(M1, {t}, [M1 EXCEPT !.deadline[t] =
                                               @ + M1.timeout[t]])
                     ELSE Crash(M1, "abort")
             IN  aml__handle_timeouts(
                     emitted(aml_emit([M EXCEPT !.fired[t] = M.deadline[t]],
                                      l, t, 0)),
                     l, t0, n - 1)

\* (a variant in which aml_dispatch does not emit the expired timers)
aml_dispatch_undrained(M, l) ==
    LET e == aml__get_timer_with_earliest_deadline(M, l)
    IN  IF M.fault # "none" \/ e = NULL THEN M
        ELSE aml__set_deadline(M, l, M.deadline[e])

\* aml_dispatch up to the first aml__event_dequeue
aml_dispatch_timers(M, l) ==
    LET drained(M1) ==
            LET e == aml__get_timer_with_earliest_deadline(M1, l)
            IN  IF M1.fault # "none" \/ e = NULL THEN M1
                ELSE IF ~(M1.deadline[e] > M.now) THEN Crash(M1, "abort")
                ELSE aml__set_deadline(M1, l, M1.deadline[e])
    IN  drained(aml__handle_timeouts(M, l, M.now, LoopLimit))

\* aml__event_dequeue and aml__handle_event up to the callback
aml__handle_event_enter(M, l, o) ==
    aml_ref(TAILQ_REMOVE(Dequeued([M EXCEPT !.hist.owed = @ \ {o},
                                            !.hist.modfd = @ \ {o}], l),
                         l, o), o)

\* aml__handle_event after the callback, up to its aml_unref
aml__handle_event_rearm(M, l, o) ==
    IF M.type[o] # AML_OBJ_HANDLER THEN M
    ELSE LET M1 == [M EXCEPT !.revents[o] = 0, !.hist.mask[o] = 0]
         IN  Access(M, {o, l},
                    IF Bit(M.backend[l].flags, AML_BACKEND_EDGE_TRIGGERED)
                    THEN aml__mod_fd(M1, l, o).m ELSE M1)

\* (a variant in which aml_dispatch keeps the reference of the queue)
aml__handle_event_leave_held(M, l, o) ==
    aml_unref(aml__handle_event_rearm(M, l, o), o)

\* aml__handle_event after the callback, and the aml_unref of aml_dispatch
aml__handle_event_leave(M, l, o) ==
    aml_unref(aml_unref(aml__handle_event_rearm(M, l, o), o), o)

\* ---- initial state ----

\* a source to create: its kind and, for a timer or ticker, its duration
Src(k, d) == [kind |-> k, dur |-> d]

\* the sources a program creates on its loop: one of any kind
Plans ==
    {<<Src(k, 0)>> : k \in {AML_OBJ_HANDLER, AML_OBJ_SIGNAL, AML_OBJ_WORK,
                            AML_OBJ_IDLE}}
    \cup {<<Src(AML_OBJ_TIMER, d)>> : d \in 0..MaxDuration}
    \cup {<<Src(AML_OBJ_TICKER, d)>> : d \in 1..MaxDuration}

\* the sources a program with two loops creates
PlansTwoLoops ==
    {<<Src(AML_OBJ_SIGNAL, 0)>>, <<Src(AML_OBJ_IDLE, 0)>>,
     <<Src(AML_OBJ_TIMER, 0)>>}

\* the thread is in no call (at, with fn the function it is in and obj its
\* argument), its signal mask is open, no handler runs on its stack (hat,
\* with sig and loop what the handler emits), and the mutexes are free
NoSig ==
    [at |-> "out", fn |-> "none", obj |-> NULL, masked |-> FALSE,
     hat |-> "none", sig |-> NULL, loop |-> NULL,
     ref_mutex |-> "free", event_queue_mutex |-> "free"]

\* nothing has happened yet; on: whether the emits are recorded (fifo, mask,
\* owed); modfd: the handlers aml__mod_fd was called for since their
\* callback last began
NoHist ==
    [on |-> FALSE, owed |-> {}, modfd |-> {},
     fifo |-> [l \in Obj |-> <<>>], mask |-> [o \in Obj |-> 0],
     enq |-> [o \in Obj |-> 0], down |-> [l \in Obj |-> <<>>]]

\* the memory before anything is allocated
Blank ==
    [env |-> [add_ok |-> TRUE, traps |-> TRUE], now |-> 0, emitted |-> {},
     fired |-> [o \in Obj |-> -1],
     alloc |-> [o \in Obj |-> "none"],
     type |-> [o \in Obj |-> AML_OBJ_UNSPEC],
     ref |-> [o \in Obj |-> 0],
     id |-> [o \in Obj |-> 0],
     aml__obj_id |-> 0,
     first |-> [T \in ListNames |-> [h \in Ptr |-> NULL]],
     last |-> [h \in Obj |-> NullAddr],
     next |-> [T \in ListNames |-> [o \in Obj |-> NULL]],
     prev |-> [T \in ListNames |-> [o \in Obj |-> NullAddr]],
     timeout |-> [o \in Obj |-> 0],
     deadline |-> [o \in Obj |-> 0],
     revents |-> [o \in Obj |-> 0],
     event_mask |-> [o \in Obj |-> 0],
     backend |-> [o \in Obj |-> posix_backend],
     parent |-> [o \in Obj |-> NULL],
     do_exit |-> [o \in Obj |-> FALSE],
     be_fds |-> [o \in Obj |-> {}],
     be_sigs |-> [o \in Obj |-> {}],
     be_deadline |-> [o \in Obj |-> -1],
     be_alive |-> [o \in Obj |-> FALSE],
     be_intr |-> [o \in Obj |-> FALSE],
     fault |-> "none", uaf |-> FALSE,
     nfree |-> [o \in Obj |-> 0],
     pool |-> NoPool,
     posix_state |-> [o \in Obj |-> NoPosix],
     run |-> NoRun,
     sigctx |-> NoSig,
     hist |-> NoHist]

\* a thread that is in no call and owns no reference
NoThread == [at |-> "idle", obj |-> NULL, r |-> 0, refs |-> [o \in Obj |-> 0]]

\* nothing observed of the timers: fired, the deadline each was emitted at
\* by the dispatch under way; last, that of the latest callback entered; cbs,
\* the callbacks entered in this dispatch; again, the sources started during
\* it; t0 and ncb, for a ticker, the time of its start and the callbacks
\* entered since
NoObs == [fired |-> [o \in Obj |-> -1], last |-> -1,
          cbs |-> [o \in Obj |-> 0], again |-> {},
          t0 |-> [o \in Obj |-> 0], ncb |-> [o \in Obj |-> 0]]

InitRest ==
    /\ now = 0
    /\ pc = "none"
    /\ dl = NULL
    /\ cur = NULL
    /\ call = [op |-> "other", loop |-> NULL, obj |-> NULL, rc |-> 0,
               pre |-> FALSE, ok |-> TRUE]
    /\ quiet = [o \in Obj |-> FALSE]
    /\ obs = NoObs

\* the memory M holds, as a predicate on the unprimed variables
IsMem(M) ==
    /\ alloc = M.alloc /\ type = M.type /\ ref = M.ref /\ id = M.id
    /\ aml__obj_id = M.aml__obj_id /\ first = M.first /\ last = M.last
    /\ next = M.next /\ prev = M.prev /\ timeout = M.timeout
    /\ deadline = M.deadline /\ revents = M.revents /\ parent = M.parent
    /\ event_mask = M.event_mask /\ backend = M.backend
    /\ do_exit = M.do_exit /\ be_fds = M.be_fds /\ be_sigs = M.be_sigs
    /\ be_deadline = M.be_deadline /\ be_alive = M.be_alive
    /\ be_intr = M.be_intr
    /\ fault = M.fault /\ uaf = M.uaf /\ nfree = M.nfree
    /\ pool = M.pool /\ posix_state = M.posix_state /\ run = M.run
    /\ sigctx = M.sigctx /\ hist = M.hist

\* the program has created its loop: object 1, one reference, the user's
Init ==
    /\ IsMem(aml_new(Blank, 1))
    /\ userRefs = [o \in Obj |-> IF o = 1 THEN 1 ELSE 0]
    /\ plan \in Plans
    /\ thr = [t \in Threads |-> NoThread]
    /\ InitRest

\* the program has created two loops, objects 1 and 2
InitTwoLoops ==
    /\ IsMem(aml_new(aml_new(Blank, 1), 2))
    /\ userRefs = [o \in Obj |-> IF o \in {1, 2} THEN 1 ELSE 0]
    /\ plan \in PlansTwoLoops
    /\ thr = [t \in Threads |-> NoThread]
    /\ InitRest

\* ---- who may call ----

NoEnv == [add_ok |-> TRUE, traps |-> TRUE]
Env(ok, traps) == [add_ok |-> ok, traps |-> traps]

Live(o) == alloc[o] = "live"
LiveLoop(l) == Live(l) /\ type[l] = AML_OBJ_AML
LiveSource(o) == Live(o) /\ type[o] \in SourceKinds

\* user code runs on the dispatch thread: between dispatches or in a callback
UserTurn == fault = "none" /\ ~uaf /\ pc \in {"none", "cb", "idlecb"}

Called(op, l, o, rc, pre, ok) ==
    call' = [op |-> op, loop |-> l, obj |-> o, rc |-> rc, pre |-> pre,
             ok |-> ok]

\* a step that is no call of start, stop or emit
Uncalled == Called("other", NULL, NULL, 0, FALSE, TRUE)

\* aml_stop has returned for it and aml_emit has not been called since
Quiet(M, stopped, started) ==
    quiet' = [o \in Obj |-> IF o \in M.emitted \/ o \in started THEN FALSE
                            ELSE IF o \in stopped THEN TRUE ELSE quiet[o]]

\* o is reached from the head of l's event queue
IsQueuedIn(M, l, o) ==
    LET w == ListWalk(M, "event", M.first["event"][l], <<>>)
    IN  \E i \in 1..Len(w.elems) : w.elems[i] = o

IsQueued(l, o) == IsQueuedIn(Mem(NoEnv), l, o)

\* o is in the started list of l
Started(l, o) == aml_is_started(Mem(NoEnv), l, o)

\* ---- actions ----

\* callbacks of one ticker are counted up to this many
CbCap == MaxTime + 2

\* what is observed when aml_start(l, o) returns 0
ObsStart(o) ==
    [obs EXCEPT !.again = IF pc # "none" THEN @ \cup {o} ELSE @,
                !.t0[o] = IF type[o] = AML_OBJ_TICKER THEN now ELSE @,
                !.ncb[o] = IF type[o] = AML_OBJ_TICKER THEN 0 ELSE @]

\* what is observed when the callback of o is entered
ObsCallback(o) ==
    [obs EXCEPT !.last = IF obs.fired[o] >= 0 THEN obs.fired[o] ELSE @,
                !.cbs[o] = IF @ < 2 THEN @ + 1 ELSE @,
                !.ncb[o] = IF type[o] \in {AML_OBJ_TICKER, AML_OBJ_WORK}
                              /\ @ < CbCap
                           THEN @ + 1 ELSE @]

\* the user creates the next source of the plan
NSources == Cardinality({o \in Obj : type[o] \in SourceKinds})

NewSource ==
    /\ UserTurn
    /\ NSources < Len(plan)
    /\ \E o \in Obj : alloc[o] = "none"
    /\ LET o == NextSlot
           p == plan[NSources + 1]
       IN  /\ SetMem(aml_source_new(Mem(NoEnv), o, p.kind, p.dur))
           /\ userRefs' = [userRefs EXCEPT ![o] = 1]
    /\ Uncalled
    /\ UNCHANGED <<obs, thr, plan, now, pc, dl, cur, quiet>>

\* the user takes a reference
UserRef(o) ==
    /\ UserTurn /\ LiveSource(o)
    /\ userRefs[o] > 0 /\ userRefs[o] < MaxUserRef
    /\ SetMem(aml_ref(Mem(NoEnv), o))
    /\ userRefs' = [userRefs EXCEPT ![o] = @ + 1]
    /\ Uncalled
    /\ UNCHANGED <<obs, thr, plan, now, pc, dl, cur, quiet>>

\* the user drops a reference it owns (not the last one of the loop that is
\* dispatching)
UserUnref(o) ==
    /\ UserTurn /\ Live(o)
    /\ userRefs[o] > 0
    /\ ~(pc # "none" /\ o = dl)
    /\ \E t \in BOOLEAN : SetMem(aml_unref(Mem(Env(TRUE, t)), o))
    /\ Uncalled
    /\ userRefs' = [userRefs EXCEPT ![o] = @ - 1]
    /\ UNCHANGED <<obs, thr, plan, now, pc, dl, cur, quiet>>

\* aml_start(l, o); ok: whether the backend or the thread pool accepts
Start(l, o, ok) ==
    /\ UserTurn /\ LiveLoop(l) /\ Live(o)
    /\ ref[o] < MaxRef
    /\ \E t \in BOOLEAN :
        LET returned(r) ==
                /\ SetMem(r.m)
                /\ Called("start", l, o, r.rc, Started(l, o), ok)
                /\ Quiet(r.m, {}, {o})
                /\ obs' = IF r.rc = 0 THEN ObsStart(o) ELSE obs
        IN  returned(aml_start(Mem(Env(ok, t)), l, o))
    /\ UNCHANGED <<thr, plan, now, pc, dl, cur, userRefs>>

\* aml_stop(l, o)
Stop(l, o) ==
    /\ UserTurn /\ LiveLoop(l) /\ Live(o)
    /\ \E t \in BOOLEAN :
        LET returned(r) ==
                /\ SetMem(r.m)
                /\ Called("stop", l, o, r.rc, Started(l, o), TRUE)
                /\ Quiet(r.m, {o}, {})
        IN  returned(aml_stop(Mem(Env(TRUE, t)), l, o))
    /\ UNCHANGED <<obs, thr, plan, now, pc, dl, cur, userRefs>>

\* the backend (its poll, its poller thread or its signal handler) reports
\* a registered handler or signal: aml_emit(l, o, rev)
BackendEmit(l, o, rev) ==
    /\ fault = "none" /\ LiveLoop(l) /\ Live(o)
    /\ \/ o \in be_fds[l] /\ type[o] = AML_OBJ_HANDLER
       \/ o \in be_sigs[l] /\ type[o] = AML_OBJ_SIGNAL /\ rev = 0
    /\ ref[o] < MaxRef
    /\ \E t \in BOOLEAN :
        LET returned(M) == SetMem(M) /\ Quiet(M, {}, {})
        IN  returned(aml_emit(Mem(Env(TRUE, t)), l, o, rev))
    /\ Called("emit", l, o, 0, IsQueued(l, o), TRUE)
    /\ UNCHANGED <<obs, thr, plan, now, pc, dl, cur, userRefs>>

\* time passes (the clock is read by aml__start_timer and aml_dispatch only,
\* so it matters only while a timer is started)
Tick ==
    /\ fault = "none" /\ now < MaxTime
    /\ \E l \in Obj : LiveLoop(l) /\ first["timer"][l] # NULL
    /\ now' = now + 1
    /\ Uncalled
    /\ UNCHANGED <<obs, memVars, thr, plan, pc, dl, cur, userRefs, quiet>>

\* aml_dispatch(l) starts: the timer drain and the deadline
DispatchBegin(l) ==
    /\ fault = "none" /\ pc = "none" /\ LiveLoop(l)
    /\ \E t \in BOOLEAN :
        LET returned(M) ==
                /\ SetMem(M) /\ Quiet(M, {}, {})
                /\ obs' = [obs EXCEPT !.fired = M.fired]
        IN  returned(aml_dispatch_timers(Mem(Env(TRUE, t)), l))
    /\ pc' = "drain" /\ dl' = l /\ cur' = NULL
    /\ Uncalled
    /\ UNCHANGED <<thr, plan, now, userRefs>>

\* the queue drain: dequeue one source and enter its callback, or go on to
\* the idle list when the queue is empty
DispatchDequeue ==
    /\ fault = "none" /\ pc = "drain"
    /\ LET o == first["event"][dl]
       IN  IF o = NULL
           THEN /\ pc' = "idle" /\ cur' = first["idle"][dl]
                /\ UNCHANGED <<memVars, obs>>
           ELSE /\ \E t \in BOOLEAN :
                     SetMem(aml__handle_event_enter(Mem(Env(TRUE, t)), dl, o))
                /\ pc' = "cb" /\ cur' = o
                /\ obs' = ObsCallback(o)
    /\ Uncalled
    /\ UNCHANGED <<thr, plan, now, dl, userRefs, quiet>>

\* the callback returns
CallbackReturn ==
    /\ fault = "none" /\ pc = "cb"
    /\ \E t \in BOOLEAN :
        SetMem(aml__handle_event_leave(Mem(Env(TRUE, t)), dl, cur))
    /\ pc' = "drain" /\ cur' = NULL
    /\ Uncalled
    /\ UNCHANGED <<obs, thr, plan, now, dl, userRefs, quiet>>

\* aml__handle_idle: enter the callback of the next idle source, or finish
\* the dispatch with aml__post_dispatch
DispatchIdle ==
    /\ fault = "none" /\ pc = "idle"
    /\ IF cur = NULL
       THEN /\ pc' = "none" /\ dl' = NULL /\ UNCHANGED cur
            /\ SetMem(aml_dispatch_return(Mem(NoEnv), dl))
            /\ obs' = [NoObs EXCEPT !.t0 = obs.t0, !.ncb = obs.ncb]
       ELSE /\ \E t \in BOOLEAN :
                 SetMem(Access(Mem(Env(TRUE, t)), {cur}, Mem(NoEnv)))
            /\ pc' = "idlecb" /\ UNCHANGED <<dl, cur, obs>>
    /\ Uncalled
    /\ UNCHANGED <<thr, plan, now, userRefs, quiet>>

\* the idle callback returns: LIST_FOREACH steps to idle->link.le_next
IdleReturn ==
    /\ fault = "none" /\ pc = "idlecb"
    /\ \E t \in BOOLEAN :
        SetMem(Access(Mem(Env(TRUE, t)), {cur}, Mem(NoEnv)))
    /\ pc' = "idle" /\ cur' = next["idle"][cur]
    /\ Uncalled
    /\ UNCHANGED <<obs, thr, plan, now, dl, userRefs, quiet>>

Next ==
    \/ NewSource
    \/ \E o \in Obj : UserRef(o)
    \/ \E o \in Obj : UserUnref(o)
    \/ \E l \in Obj, o \in Obj, ok \in BOOLEAN : Start(l, o, ok)
    \/ \E l \in Obj, o \in Obj : Stop(l, o)
    \/ \E l \in Obj, o \in Obj, rev \in 0..3 : BackendEmit(l, o, rev)
    \/ Tick
    \/ \E l \in Obj : DispatchBegin(l)
    \/ DispatchDequeue
    \/ CallbackReturn
    \/ DispatchIdle
    \/ IdleReturn

Spec == Init /\ [][Next]_vars

\* the same program, with its emits recorded
InitEmits ==
    /\ IsMem([aml_new(Blank, 1) EXCEPT !.hist.on = TRUE])
    /\ userRefs = [o \in Obj |-> IF o = 1 THEN 1 ELSE 0]
    /\ plan \in Plans
    /\ thr = [t \in Threads |-> NoThread]
    /\ InitRest

SpecEmits == InitEmits /\ [][Next]_vars

\* a program with a fd handler on a loop whose backend is edge-triggered,
\* with a mod_fd of its own or without
InitEdge ==
    /\ \E b \in BOOLEAN :
         IsMem([aml_new(Blank, 1) EXCEPT
                   !.hist.on = TRUE,
                   !.backend[1] = [flags |-> AML_BACKEND_EDGE_TRIGGERED,
                                   mod_fd |-> b]])
    /\ userRefs = [o \in Obj |-> IF o = 1 THEN 1 ELSE 0]
    /\ plan = <<Src(AML_OBJ_HANDLER, 0)>>
    /\ thr = [t \in Threads |-> NoThread]
    /\ InitRest

NextEdge ==
    \/ NewSource
    \/ \E o \in Obj : UserUnref(o)
    \/ \E l \in Obj, o \in Obj, ok \in BOOLEAN : Start(l, o, ok)
    \/ \E l \in Obj, o \in Obj : Stop(l, o)
    \/ \E l \in Obj, o \in Obj, rev \in 0..3 : BackendEmit(l, o, rev)
    \/ \E l \in Obj : DispatchBegin(l)
    \/ DispatchDequeue
    \/ CallbackReturn
    \/ DispatchIdle

SpecEdge == InitEdge /\ [][NextEdge]_vars

\* a program with two loops: it creates a source, starts and stops it on
\* either loop, drops references, and dispatches
NextTwoLoops ==
    \/ NewSource
    \/ \E l \in Obj, o \in Obj, ok \in BOOLEAN : LiveSource(o) /\ Start(l, o, ok)
    \/ \E l \in Obj, o \in Obj : LiveSource(o) /\ Stop(l, o)
    \/ \E o \in Obj : UserUnref(o)
    \/ \E l \in Obj : DispatchBegin(l)
    \/ DispatchDequeue
    \/ CallbackReturn
    \/ DispatchIdle
    \/ IdleReturn

SpecTwoLoops == InitTwoLoops /\ [][NextTwoLoops]_vars

\* a program with two timers or tickers: it creates and starts them, time
\* passes, and it dispatches
PlansTimers ==
    {<<Src(k1, d1), Src(k2, d2)>> :
        k1 \in {AML_OBJ_TIMER, AML_OBJ_TICKER},
        k2 \in {AML_OBJ_TIMER, AML_OBJ_TICKER},
        d1 \in 1..MaxDuration, d2 \in 1..MaxDuration}

InitTimers ==
    /\ IsMem(aml_new(Blank, 1))
    /\ userRefs = [o \in Obj |-> IF o = 1 THEN 1 ELSE 0]
    /\ plan \in PlansTimers
    /\ thr = [t \in Threads |-> NoThread]
    /\ InitRest

NextTimers ==
    \/ NewSource
    \/ \E l \in Obj, o \in Obj : LiveSource(o) /\ Start(l, o, TRUE)
    \/ Tick
    \/ \E l \in Obj : DispatchBegin(l)
    \/ DispatchDequeue
    \/ CallbackReturn
    \/ DispatchIdle

SpecTimers == InitTimers /\ [][NextTimers]_vars

\* a program with two timers or tickers that stops them as well
NextRearm ==
    \/ NextTimers
    \/ \E l \in Obj, o \in Obj : LiveSource(o) /\ Stop(l, o)

SpecRearm == InitTimers /\ [][NextRearm]_vars

\* aml_set_duration(o, d)
SetDuration(o, d) ==
    /\ UserTurn /\ Live(o) /\ type[o] \in {AML_OBJ_TIMER, AML_OBJ_TICKER}
    /\ timeout[o] # d
    /\ \E t \in BOOLEAN : SetMem(aml_set_duration(Mem(Env(TRUE, t)), o, d))
    /\ Uncalled
    /\ UNCHANGED <<obs, thr, plan, now, pc, dl, cur, userRefs, quiet>>

\* a program with a timer or a ticker that changes its duration
InitDrain ==
    /\ IsMem(aml_new(Blank, 1))
    /\ userRefs = [o \in Obj |-> IF o = 1 THEN 1 ELSE 0]
    /\ plan \in {<<Src(k, d)>> : k \in {AML_OBJ_TIMER, AML_OBJ_TICKER},
                                  d \in 1..MaxDuration}
    /\ thr = [t \in Threads |-> NoThread]
    /\ InitRest

NextDrain ==
    \/ NextRearm
    \/ \E o \in Obj, d \in 0..MaxDuration : SetDuration(o, d)

SpecDrain == InitDrain /\ [][NextDrain]_vars

\* ---- threads on the id table ----

\* threads that own references to a source take more, drop them and look
\* its id up; the program has created a loop (object 1) and the source of
\* its plan (object 2), and thread 1 owns the creation reference of the
\* source
InitUpgrade ==
    /\ plan \in Plans
    /\ IsMem(aml_source_new(aml_new(Blank, 1), 2, plan[1].kind, plan[1].dur))
    /\ userRefs = [o \in Obj |-> 0]
    /\ thr = [t \in Threads |->
                IF t = 1 THEN [NoThread EXCEPT
                                 !.refs = [o \in Obj |-> IF o = 2 THEN 1 ELSE 0]]
                ELSE NoThread]
    /\ InitRest

\* aml_ref(o) by a thread that owns a reference to o
ThreadRef(t, o) ==
    /\ fault = "none" /\ thr[t].at = "idle"
    /\ thr[t].refs[o] > 0 /\ thr[t].refs[o] < MaxUserRef
    /\ \E x \in BOOLEAN : SetMem(aml_ref(Mem(Env(TRUE, x)), o))
    /\ thr' = [thr EXCEPT ![t].refs[o] = @ + 1]
    /\ Uncalled
    /\ UNCHANGED <<obs, plan, now, pc, dl, cur, userRefs, quiet>>

\* aml_unref(o) by a thread that owns a reference to o: the critical section
ThreadUnrefLocked(t, o) ==
    /\ fault = "none" /\ thr[t].at = "idle"
    /\ thr[t].refs[o] > 0
    /\ \E x \in BOOLEAN :
        LET unlocked(M) ==
                /\ SetMem(M)
                /\ thr' = [thr EXCEPT ![t].refs[o] = @ - 1,
                                      ![t].at = "unref",
                                      ![t].obj = o, ![t].r = M.ref[o]]
        IN  unlocked(aml_unref_locked(Mem(Env(TRUE, x)), o))
    /\ Uncalled
    /\ UNCHANGED <<obs, plan, now, pc, dl, cur, userRefs, quiet>>

\* the rest of that aml_unref: the assertion and, at zero, the finalization
ThreadUnrefFinalize(t) ==
    /\ fault = "none" /\ thr[t].at = "unref"
    /\ \E x \in BOOLEAN :
        SetMem(aml_unref_finalize(Mem(Env(TRUE, x)), thr[t].obj, thr[t].r))
    /\ thr' = [thr EXCEPT ![t].at = "idle", ![t].obj = NULL, ![t].r = 0]
    /\ Uncalled
    /\ UNCHANGED <<obs, plan, now, pc, dl, cur, userRefs, quiet>>

\* aml_try_ref(i) by any thread; the thread owns the reference it gets
ThreadTryRef(t, i) ==
    /\ fault = "none" /\ thr[t].at = "idle"
    /\ \A o \in Obj : thr[t].refs[o] < MaxUserRef
    /\ \E x \in BOOLEAN :
        LET returned(r) ==
                /\ SetMem(r.m)
                /\ thr' = IF r.rc = NULL THEN thr
                          ELSE [thr EXCEPT ![t].refs[r.rc] = @ + 1]
                /\ Called("try_ref", NULL, r.rc, i, FALSE, TRUE)
        IN  returned(aml_try_ref(Mem(Env(TRUE, x)), i))
    /\ UNCHANGED <<obs, plan, now, pc, dl, cur, userRefs, quiet>>

NextUpgrade ==
    \/ \E t \in Threads, o \in Obj : ThreadRef(t, o)
    \/ \E t \in Threads, o \in Obj : ThreadUnrefLocked(t, o)
    \/ \E t \in Threads : ThreadUnrefFinalize(t)
    \* the ids looked up: that of the source, and one that was never issued
    \/ \E t \in Threads, i \in 1..aml__obj_id : ThreadTryRef(t, i)

SpecUpgrade == InitUpgrade /\ [][NextUpgrade]_vars

\* ---- threads creating sources ----

\* no object exists yet; the threads of the program create sources of the kind
\* of its plan, drop them and look ids up
InitCreate ==
    /\ IsMem(Blank)
    /\ userRefs = [o \in Obj |-> 0]
    /\ plan \in PlansTwoLoops
    /\ thr = [t \in Threads |-> NoThread]
    /\ InitRest

\* aml_*_new by thread t up to its call of aml__obj_global_ref
ThreadCalloc(t) ==
    /\ fault = "none" /\ thr[t].at = "idle"
    /\ \E o \in Obj : alloc[o] = "none"
    /\ SetMem(aml_source_calloc(Mem(NoEnv), NextSlot, plan[1].kind,
                                plan[1].dur))
    /\ thr' = [thr EXCEPT ![t].at = "new", ![t].obj = NextSlot]
    /\ Uncalled
    /\ UNCHANGED <<obs, plan, now, pc, dl, cur, userRefs, quiet>>

\* aml__obj_global_ref in that aml_*_new: the critical section; the thread
\* owns the reference of the new source
ThreadGlobalRef(t) ==
    /\ fault = "none" /\ thr[t].at = "new"
    /\ SetMem(aml__obj_global_ref(Mem(NoEnv), thr[t].obj))
    /\ thr' = [thr EXCEPT ![t].at = "idle", ![t].obj = NULL,
                          ![t].refs[thr[t].obj] = 1]
    /\ Uncalled
    /\ UNCHANGED <<obs, plan, now, pc, dl, cur, userRefs, quiet>>

\* a thread works on one source at a time
OwnsNone(t) == \A o \in Obj : thr[t].refs[o] = 0

NextCreate ==
    \/ \E t \in Threads : OwnsNone(t) /\ ThreadCalloc(t)
    \/ \E t \in Threads : ThreadGlobalRef(t)
    \/ \E t \in Threads, o \in Obj : ThreadUnrefLocked(t, o)
    \/ \E t \in Threads : ThreadUnrefFinalize(t)
    \* the id looked up: the first one issued
    \/ \E t \in Threads : OwnsNone(t) /\ ThreadTryRef(t, 0)

SpecCreate == InitCreate /\ [][NextCreate]_vars

\* ---- the worker threads ----

\* a program with two loops and a work source: it asks for workers, starts
\* the work, dispatches and drops its references, while the workers run
InitPool ==
    /\ IsMem(aml_new(aml_new(Blank, 1), 2))
    /\ userRefs = [o \in Obj |-> IF o \in {1, 2} THEN 1 ELSE 0]
    /\ plan = <<Src(AML_OBJ_WORK, 0)>>
    /\ thr = [t \in Threads |-> NoThread]
    /\ InitRest

\* aml_require_workers(l, n); ok: whether realloc succeeds
RequireWorkers(l, n, ok) ==
    /\ UserTurn /\ LiveLoop(l)
    /\ LET returned(r) ==
               /\ SetMem(r.m)
               /\ Called("require", l, NULL, r.rc, FALSE, ok)
       IN  returned(aml_require_workers(Mem(Env(ok, TRUE)), l, n))
    /\ UNCHANGED <<obs, thr, plan, now, pc, dl, cur, userRefs, quiet>>

\* worker t is at this place of worker_fn; a worker runs on while the thread
\* that finalizes a loop waits in pthread_join
WorkerTurn(t, at) == fault \in {"none", "join"} /\ pool.at[t] = at

\* the memory as a worker finds it and leaves it
WorkerMem(env) == [Mem(env) EXCEPT !.fault = "none"]
SetWorkerMem(M) ==
    SetMem(IF fault = "join" /\ M.fault = "none"
           THEN [M EXCEPT !.fault = "join"] ELSE M)

\* dequeue_work: an entry of work is taken; the entry without work stays
\* queued and ends the thread
WorkerDequeue(t) ==
    /\ WorkerTurn(t, "wait") /\ pool.queue # <<>>
    /\ SetWorkerMem(
           IF Head(pool.queue).work = NULL
           THEN [WorkerMem(NoEnv) EXCEPT !.pool.at[t] = "exited"]
           ELSE [WorkerMem(NoEnv) EXCEPT !.pool.queue = Tail(@),
                                         !.pool.job[t] = Head(pool.queue),
                                         !.pool.at[t] = "fn"])
    /\ Uncalled
    /\ UNCHANGED <<obs, thr, plan, now, pc, dl, cur, userRefs, quiet>>

\* aml_get_work_fn and the work function
WorkerFn(t) ==
    /\ WorkerTurn(t, "fn")
    /\ pool.ran[pool.job[t].work] < MaxWork
    /\ \E x \in BOOLEAN :
        LET w == pool.job[t].work
        IN  SetWorkerMem(
                Access(WorkerMem(Env(TRUE, x)), {w},
                       [WorkerMem(NoEnv) EXCEPT
                          !.pool.ran[w] = @ + 1,
                          !.pool.at[t] = "try_ref"]))
    /\ Uncalled
    /\ UNCHANGED <<obs, thr, plan, now, pc, dl, cur, userRefs, quiet>>

\* aml_try_ref(work->aml_id); without a loop the entry is freed
WorkerTryRef(t) ==
    /\ WorkerTurn(t, "try_ref")
    /\ \E x \in BOOLEAN :
        LET returned(r) ==
                SetWorkerMem(
                    IF r.rc = NULL
                    THEN [r.m EXCEPT !.pool.at[t] = "wait",
                                     !.pool.job[t] = Job(ULLONG_MAX, NULL)]
                    ELSE [r.m EXCEPT !.pool.at[t] = "emit",
                                     !.pool.loop[t] = r.rc])
        IN  returned(aml_try_ref(WorkerMem(Env(TRUE, x)), pool.job[t].aml_id))
    /\ Uncalled
    /\ UNCHANGED <<obs, thr, plan, now, pc, dl, cur, userRefs, quiet>>

\* aml_emit(aml, work->work, 0)
WorkerEmit(t) ==
    /\ WorkerTurn(t, "emit")
    /\ ref[pool.job[t].work] < MaxRef
    /\ \E x \in BOOLEAN :
        LET returned(M) ==
                /\ SetWorkerMem([M EXCEPT !.pool.at[t] = "stop"])
                /\ Quiet(M, {}, {})
        IN  returned(aml_emit(WorkerMem(Env(TRUE, x)), pool.loop[t],
                              pool.job[t].work, 0))
    /\ Uncalled
    /\ UNCHANGED <<obs, thr, plan, now, pc, dl, cur, userRefs>>

\* aml_stop(aml, work->work)
WorkerStop(t) ==
    /\ WorkerTurn(t, "stop")
    /\ \E x \in BOOLEAN :
        LET returned(r) ==
                /\ SetWorkerMem([r.m EXCEPT !.pool.at[t] = "interrupt"])
                /\ Quiet(r.m, {pool.job[t].work}, {})
        IN  returned(aml_stop(WorkerMem(Env(TRUE, x)), pool.loop[t],
                              pool.job[t].work))
    /\ Uncalled
    /\ UNCHANGED <<obs, thr, plan, now, pc, dl, cur, userRefs>>

\* aml_interrupt(aml)
WorkerInterrupt(t) ==
    /\ WorkerTurn(t, "interrupt")
    /\ \E x \in BOOLEAN :
        LET returned(M) == SetWorkerMem([M EXCEPT !.pool.at[t] = "unref"])
        IN  returned(aml_interrupt(WorkerMem(Env(TRUE, x)), pool.loop[t]))
    /\ Uncalled
    /\ UNCHANGED <<obs, thr, plan, now, pc, dl, cur, userRefs, quiet>>

\* aml_unref(aml) and free(work); a worker whose aml_unref finalizes the loop
\* may end up in pthread_join itself
WorkerUnref(t) ==
    /\ WorkerTurn(t, "unref")
    /\ \E x \in BOOLEAN :
        LET returned(M) ==
                SetWorkerMem([M EXCEPT
                    !.pool.at[t] = IF M.fault = "join" THEN "join" ELSE "wait",
                    !.pool.job[t] = Job(ULLONG_MAX, NULL),
                    !.pool.loop[t] = NULL])
        IN  returned(aml_unref(WorkerMem(Env(TRUE, x)), pool.loop[t]))
    /\ Uncalled
    /\ UNCHANGED <<obs, thr, plan, now, pc, dl, cur, userRefs, quiet>>

\* the last pthread_join of reap_threads returns, and the finalization of the
\* loop goes on
JoinReturn ==
    /\ fault = "join" /\ pool.joiner # NULL
    /\ \A t \in 1..pool.n_threads : pool.at[t] = "exited"
    /\ \E x \in BOOLEAN :
        SetMem(aml__free_released(
                   reap_threads_joined(WorkerMem(Env(TRUE, x))), pool.joiner))
    /\ Uncalled
    /\ UNCHANGED <<obs, thr, plan, now, pc, dl, cur, userRefs, quiet>>

\* what the workers do
Workers ==
    \/ \E t \in Threads : WorkerDequeue(t)
    \/ \E t \in Threads : WorkerFn(t)
    \/ \E t \in Threads : WorkerTryRef(t)
    \/ \E t \in Threads : WorkerEmit(t)
    \/ \E t \in Threads : WorkerStop(t)
    \/ \E t \in Threads : WorkerInterrupt(t)
    \/ \E t \in Threads : WorkerUnref(t)

\* the loops come and go: the program asks for workers, starts the work on a
\* loop that has them and drops the loops
NextPool ==
    \/ NewSource
    \* each loop asks once
    \/ \E l \in Obj, n \in 0..NThreads, ok \in BOOLEAN :
            ~pool.have[l] /\ RequireWorkers(l, n, ok)
    \/ \E l \in Obj, o \in Obj :
            pool.have[l] /\ LiveSource(o) /\ Start(l, o, TRUE)
    \/ \E o \in Obj : LiveLoop(o) /\ UserUnref(o)
    \/ Workers
    \/ JoinReturn

SpecPool == InitPool /\ [][NextPool]_vars

\* a program that also asks again for workers on a loop that has them
NextAcquire ==
    \/ NextPool
    \/ \E l \in Obj, n \in 0..NThreads :
            /\ pool.have[l] /\ pool.users < MaxUserRef
            /\ RequireWorkers(l, n, TRUE)

SpecAcquire == InitPool /\ [][NextAcquire]_vars

\* a program with one loop and one source of any kind: it may ask for
\* workers, starts and emits the source, dispatches, and drops the source
\* and the loop, while the workers run
NextTeardown ==
    \/ NewSource
    \/ \E l \in Obj, n \in 1..NThreads, ok \in BOOLEAN :
            ~pool.have[l] /\ RequireWorkers(l, n, ok)
    \/ \E l \in Obj, o \in Obj, ok \in BOOLEAN :
            LiveSource(o) /\ Start(l, o, ok)
    \/ \E l \in Obj, o \in Obj, rev \in 0..3 : BackendEmit(l, o, rev)
    \/ Tick
    \/ \E o \in Obj : UserUnref(o)
    \/ \E l \in Obj : DispatchBegin(l)
    \/ DispatchDequeue
    \/ CallbackReturn
    \/ DispatchIdle
    \/ IdleReturn
    \/ Workers
    \/ JoinReturn

SpecTeardown == Init /\ [][NextTeardown]_vars

\* a program with one loop that has asked for workers, and a work source:
\* it starts the work, dispatches and drops the work
InitWork ==
    /\ \E n \in 1..NThreads :
          IsMem(aml_require_workers(aml_new(Blank, 1), 1, n).m)
    /\ userRefs = [o \in Obj |-> IF o = 1 THEN 1 ELSE 0]
    /\ plan = <<Src(AML_OBJ_WORK, 0)>>
    /\ thr = [t \in Threads |-> NoThread]
    /\ InitRest

NextWork ==
    \/ NewSource
    \/ \E l \in Obj, o \in Obj : LiveSource(o) /\ Start(l, o, TRUE)
    \/ \E o \in Obj : LiveSource(o) /\ UserUnref(o)
    \/ \E l \in Obj : DispatchBegin(l)
    \/ DispatchDequeue
    \/ CallbackReturn
    \/ DispatchIdle
    \/ Workers

SpecWork == InitWork /\ [][NextWork]_vars

\* a program that stops the work as well
NextCancel ==
    \/ NextWork
    \/ \E l \in Obj, o \in Obj : LiveSource(o) /\ Stop(l, o)

SpecCancel == InitWork /\ [][NextCancel]_vars

\* ---- aml_run, aml_poll and the poller thread of the posix backend ----

\* a program with one loop and a handler
InitRun ==
    /\ IsMem(aml_new(Blank, 1))
    /\ userRefs = [o \in Obj |-> IF o = 1 THEN 1 ELSE 0]
    /\ plan = <<Src(AML_OBJ_HANDLER, 0)>>
    /\ thr = [t \in Threads |-> NoThread]
    /\ InitRest

\* the poll timeouts a program passes: block, return at once, wait
Timeouts == {-1, 0, 1}

\* aml_poll(l, tmo) is entered outside aml_run
Poll(l, tmo) ==
    /\ fault = "none" /\ pc = "none" /\ run.at = "out" /\ LiveLoop(l)
    /\ pc' = "poll"
    /\ SetMem([Mem(NoEnv) EXCEPT !.run.loop = l, !.run.timeout = tmo])
    /\ Uncalled
    /\ UNCHANGED <<obs, thr, plan, now, dl, cur, userRefs, quiet>>

\* aml_run(l) is entered: do_exit is reset and aml_poll(l, -1) is entered
Run(l) ==
    /\ fault = "none" /\ pc = "none" /\ run.at = "out" /\ LiveLoop(l)
    /\ pc' = "poll"
    /\ SetMem([Mem(NoEnv) EXCEPT !.do_exit[l] = FALSE, !.run.at = "poll",
                                 !.run.loop = l, !.run.timeout = -1])
    /\ Uncalled
    /\ UNCHANGED <<obs, thr, plan, now, dl, cur, userRefs, quiet>>

\* aml_poll returns: the wait of posix_poll ends when nfds is set or, with a
\* timeout that is not negative, when the time is up
PollReturn ==
    /\ fault = "none" /\ pc = "poll"
    /\ posix_state[run.loop].nfds # 0 \/ run.timeout >= 0
    /\ pc' = "none"
    /\ LET returned(r) ==
               /\ SetMem([r.m EXCEPT
                            !.run.at = IF @ = "poll" THEN "dispatch" ELSE @,
                            !.run.owed = FALSE])
               /\ Called("poll", run.loop, NULL, r.rc,
                         posix_state[run.loop].nfds = 0, TRUE)
       IN  returned(aml_poll(Mem(NoEnv), run.loop, run.timeout))
    /\ UNCHANGED <<obs, thr, plan, now, dl, cur, userRefs, quiet>>

\* aml_run after aml_dispatch: it returns when do_exit is set and enters
\* aml_poll(l, -1) again when it is not
RunTest ==
    /\ fault = "none" /\ pc = "none" /\ run.at = "test"
    /\ IF do_exit[run.loop]
       THEN /\ SetMem([Mem(NoEnv) EXCEPT !.run.at = "out"])
            /\ pc' = "none"
            /\ Called("run", run.loop, NULL, 0, FALSE, TRUE)
       ELSE /\ SetMem([Mem(NoEnv) EXCEPT !.run.at = "poll"])
            /\ pc' = "poll"
            /\ Uncalled
    /\ UNCHANGED <<obs, thr, plan, now, dl, cur, userRefs, quiet>>

\* aml_exit(l), from a callback or from another thread while the dispatch
\* thread is in aml_poll
Exit(l) ==
    /\ fault = "none" /\ LiveLoop(l) /\ pc \in {"cb", "poll"}
    /\ ~do_exit[l]
    /\ SetMem(aml_exit(Mem(NoEnv), l))
    /\ Called("exit", l, NULL, 0, pc = "cb", TRUE)
    /\ UNCHANGED <<obs, thr, plan, now, pc, dl, cur, userRefs, quiet>>

\* aml_interrupt(l), from any thread
Interrupt(l) ==
    /\ fault = "none" /\ LiveLoop(l) /\ ~be_intr[l]
    /\ SetMem([aml_interrupt(Mem(NoEnv), l) EXCEPT !.run.owed = TRUE])
    /\ Uncalled
    /\ UNCHANGED <<obs, thr, plan, now, pc, dl, cur, userRefs, quiet>>

\* the fd of a handler that the backend polls becomes ready
FdReady(l, h) ==
    /\ fault = "none" /\ LiveLoop(l)
    /\ h \in be_fds[l] /\ h \notin posix_state[l].ready
    /\ SetMem([Mem(NoEnv) EXCEPT !.posix_state[l].ready = @ \cup {h},
                                 !.posix_state[l].revents[h] = POLLIN])
    /\ Uncalled
    /\ UNCHANGED <<obs, thr, plan, now, pc, dl, cur, userRefs, quiet>>

\* the poller thread of l is at this place of posix_poll_thread
PollerAt(l, at) ==
    fault = "none" /\ LiveLoop(l) /\ posix_state[l].poller = at

\* posix__apply_fd_ops is done and poll() is entered
PollerApply(l) ==
    /\ PollerAt(l, "apply")
    /\ SetMem([Mem(NoEnv) EXCEPT !.posix_state[l].poller = "poll"])
    /\ Uncalled
    /\ UNCHANGED <<obs, thr, plan, now, pc, dl, cur, userRefs, quiet>>

\* SIGUSR1 is delivered to the poller thread: poll() returns -1 (EINTR) when
\* the thread is in it; anywhere else dummy_handler runs and that is all
PollerSignal(l) ==
    /\ fault = "none" /\ LiveLoop(l) /\ be_intr[l]
    /\ SetMem(IF posix_state[l].poller = "poll"
              THEN [Mem(NoEnv) EXCEPT !.be_intr[l] = FALSE,
                                      !.posix_state[l].n = -1,
                                      !.posix_state[l].poller = "wake"]
              ELSE [Mem(NoEnv) EXCEPT !.be_intr[l] = FALSE])
    /\ Uncalled
    /\ UNCHANGED <<obs, thr, plan, now, pc, dl, cur, userRefs, quiet>>

\* poll() reports the ready handlers: posix_do_poll emits them, and
\* posix_poll_thread writes a byte to the event pipe
PollerEvents(l) ==
    /\ PollerAt(l, "poll")
    /\ posix_state[l].ready \cap be_fds[l] # {}
    /\ \A h \in posix_state[l].ready : ref[h] < MaxRef
    /\ \E x \in BOOLEAN :
        LET hs == posix_state[l].ready \cap be_fds[l]
            returned(M) ==
                /\ SetMem([M EXCEPT !.posix_state[l].n = Cardinality(hs),
                                    !.posix_state[l].pipe = 1,
                                    !.posix_state[l].ready = {},
                                    !.posix_state[l].revents =
                                        [o \in Obj |-> 0],
                                    !.posix_state[l].poller = "wake"])
                /\ Quiet(M, {}, {})
        IN  returned(posix_do_poll(Mem(Env(TRUE, x)), l, hs))
    /\ Uncalled
    /\ UNCHANGED <<obs, thr, plan, now, pc, dl, cur, userRefs>>

\* posix_wake_up_main, first critical section
PollerWake(l) ==
    /\ PollerAt(l, "wake")
    /\ SetMem([Mem(NoEnv) EXCEPT
                  !.posix_state[l].waiting_for_dispatch = TRUE,
                  !.posix_state[l].poller = "signal"])
    /\ Uncalled
    /\ UNCHANGED <<obs, thr, plan, now, pc, dl, cur, userRefs, quiet>>

\* posix_wake_up_main, second critical section: nfds is handed over
PollerHandOver(l) ==
    /\ PollerAt(l, "signal")
    /\ SetMem([Mem(NoEnv) EXCEPT
                  !.posix_state[l].nfds = posix_state[l].n,
                  !.posix_state[l].poller = "wait"])
    /\ Uncalled
    /\ UNCHANGED <<obs, thr, plan, now, pc, dl, cur, userRefs, quiet>>

\* posix_wake_up_main, the wait for posix_post_dispatch is over
PollerResume(l) ==
    /\ PollerAt(l, "wait")
    /\ ~posix_state[l].waiting_for_dispatch
    /\ SetMem([Mem(NoEnv) EXCEPT !.posix_state[l].poller = "apply"])
    /\ Uncalled
    /\ UNCHANGED <<obs, thr, plan, now, pc, dl, cur, userRefs, quiet>>

NextRun ==
    \/ run.at = "out" /\ NewSource
    \/ \E l \in Obj, o \in Obj :
            run.at = "out" /\ LiveSource(o) /\ Start(l, o, TRUE)
    \/ \E l \in Obj, tmo \in Timeouts : Poll(l, tmo)
    \/ \E l \in Obj : Run(l)
    \/ PollReturn
    \/ RunTest
    \/ \E l \in Obj : run.at \in {"out", "dispatch"} /\ DispatchBegin(l)
    \/ DispatchDequeue
    \/ CallbackReturn
    \/ DispatchIdle
    \/ \E l \in Obj : Exit(l)
    \/ \E l \in Obj : Interrupt(l)
    \/ \E l \in Obj, h \in Obj : FdReady(l, h)
    \/ \E l \in Obj : PollerApply(l)
    \/ \E l \in Obj : PollerSignal(l)
    \/ \E l \in Obj : PollerEvents(l)
    \/ \E l \in Obj : PollerWake(l)
    \/ \E l \in Obj : PollerHandOver(l)
    \/ \E l \in Obj : PollerResume(l)

SpecRun == InitRun /\ [][NextRun]_vars

\* aml_set_event_mask(h, mask), between dispatches
SetEventMask(h, mask) ==
    /\ UserTurn /\ pc = "none" /\ Live(h) /\ type[h] = AML_OBJ_HANDLER
    /\ event_mask[h] # mask
    /\ SetMem(aml_set_event_mask(Mem(NoEnv), h, mask))
    /\ Uncalled
    /\ UNCHANGED <<obs, thr, plan, now, pc, dl, cur, userRefs, quiet>>

\* what poll() may report of a polled fd: any of the events its pollfd asks
\* for
PollRevents(M, h) ==
    {rev \in 1..(POLLIN + POLLPRI + POLLOUT) :
        \A b \in {POLLIN, POLLPRI, POLLOUT} :
            Bit(rev, b) => Bit(posix_get_event_mask(M, h), b)}

\* the fd of a handler that the backend polls becomes ready with rev
FdReport(l, h, rev) ==
    /\ fault = "none" /\ LiveLoop(l)
    /\ h \in be_fds[l] /\ h \notin posix_state[l].ready
    /\ rev \in PollRevents(Mem(NoEnv), h)
    /\ SetMem([Mem(NoEnv) EXCEPT !.posix_state[l].ready = @ \cup {h},
                                 !.posix_state[l].revents[h] = rev])
    /\ Uncalled
    /\ UNCHANGED <<obs, thr, plan, now, pc, dl, cur, userRefs, quiet>>

\* a program that sets the event mask of its handler, starts it and polls
\* and dispatches by hand, while the poller thread reports the fd
NextPosix ==
    \/ NewSource
    \/ \E h \in Obj, mask \in 0..(AML_EVENT_READ + AML_EVENT_WRITE) :
            SetEventMask(h, mask)
    \/ \E l \in Obj, o \in Obj : LiveSource(o) /\ Start(l, o, TRUE)
    \/ \E l \in Obj, tmo \in Timeouts : Poll(l, tmo)
    \/ PollReturn
    \/ \E l \in Obj : DispatchBegin(l)
    \/ DispatchDequeue
    \/ CallbackReturn
    \/ DispatchIdle
    \/ \E l \in Obj, h \in Obj, rev \in 1..(POLLIN + POLLPRI + POLLOUT) :
            FdReport(l, h, rev)
    \/ \E l \in Obj : PollerApply(l)
    \/ \E l \in Obj : PollerEvents(l)
    \/ \E l \in Obj : PollerWake(l)
    \/ \E l \in Obj : PollerHandOver(l)
    \/ \E l \in Obj : PollerResume(l)

SpecPosix == InitRun /\ [][NextPosix]_vars

\* a program with a timer or ticker and an idle source: it creates and
\* starts them, then calls aml_run, which another thread interrupts
PlansPhases ==
    {<<Src(k, d), Src(AML_OBJ_IDLE, 0)>> :
        k \in {AML_OBJ_TIMER, AML_OBJ_TICKER}, d \in 1..MaxDuration}

InitPhases ==
    /\ IsMem(aml_new(Blank, 1))
    /\ userRefs = [o \in Obj |-> IF o = 1 THEN 1 ELSE 0]
    /\ plan \in PlansPhases
    /\ thr = [t \in Threads |-> NoThread]
    /\ InitRest

NextPhases ==
    \/ run.at = "out" /\ NewSource
    \/ \E l \in Obj, o \in Obj :
            run.at = "out" /\ LiveSource(o) /\ Start(l, o, TRUE)
    \/ Tick
    \/ \E l \in Obj : NSources = Len(plan) /\ Run(l)
    \/ PollReturn
    \/ RunTest
    \/ \E l \in Obj : run.at = "dispatch" /\ DispatchBegin(l)
    \/ DispatchDequeue
    \/ CallbackReturn
    \/ DispatchIdle
    \/ IdleReturn
    \/ \E l \in Obj : pc = "cb" /\ Exit(l)
    \/ \E l \in Obj : Interrupt(l)
    \/ \E l \in Obj : PollerApply(l)
    \/ \E l \in Obj : PollerSignal(l)
    \/ \E l \in Obj : PollerWake(l)
    \/ \E l \in Obj : PollerHandOver(l)
    \/ \E l \in Obj : PollerResume(l)

SpecPhases == InitPhases /\ [][NextPhases]_vars

\* ---- a signal handler that emits ----

\* a program with one loop and a signal source; beside the dispatch thread
\* runs a thread that has the signal unblocked (the poller thread of the
\* posix backend, or a thread of the program)
InitSignal ==
    /\ IsMem(aml_new(Blank, 1))
    /\ userRefs = [o \in Obj |-> IF o = 1 THEN 1 ELSE 0]
    /\ plan = <<Src(AML_OBJ_SIGNAL, 0)>>
    /\ thr = [t \in Threads |-> NoThread]
    /\ InitRest

\* the thread runs: no handler is on its stack
ThreadRuns(at) ==
    fault = "none" /\ sigctx.hat = "none" /\ sigctx.at = at

\* the thread enters aml_ref(o) or aml_unref(o) (as posix__apply_fd_ops
\* does) and locks aml__ref_mutex
ThreadRefLock(o, fn) ==
    /\ ThreadRuns("out") /\ LiveSource(o)
    /\ sigctx.ref_mutex = "free"
    /\ IF fn = "aml_ref"
       THEN userRefs[o] > 0 /\ userRefs[o] < MaxUserRef /\ ref[o] < MaxRef
       ELSE userRefs[o] > 0
    /\ SetMem([Mem(NoEnv) EXCEPT !.sigctx.at = "ref_locked",
                                 !.sigctx.fn = fn, !.sigctx.obj = o,
                                 !.sigctx.ref_mutex = "thread"])
    /\ Uncalled
    /\ UNCHANGED <<obs, thr, plan, now, pc, dl, cur, userRefs, quiet>>

\* the thread changes the count, unlocks aml__ref_mutex and returns
ThreadRefUnlock ==
    /\ ThreadRuns("ref_locked")
    /\ LET o == sigctx.obj
           M == [Mem(NoEnv) EXCEPT !.sigctx = [NoSig EXCEPT
                    !.event_queue_mutex = sigctx.event_queue_mutex]]
       IN  IF sigctx.fn = "aml_ref"
           THEN /\ SetMem(aml_ref(M, o))
                /\ userRefs' = [userRefs EXCEPT ![o] = @ + 1]
           ELSE /\ SetMem(aml_unref(M, o))
                /\ userRefs' = [userRefs EXCEPT ![o] = @ - 1]
    /\ Uncalled
    /\ UNCHANGED <<obs, thr, plan, now, pc, dl, cur, quiet>>

\* the thread enters aml_emit(l, o, 0): pthread_sigmask(SIG_BLOCK)
ThreadEmitMask(l, o) ==
    /\ ThreadRuns("out") /\ LiveLoop(l) /\ LiveSource(o)
    /\ o \in be_sigs[l] /\ ref[o] < MaxRef
    /\ SetMem([Mem(NoEnv) EXCEPT !.sigctx.at = "emit_lock",
                                 !.sigctx.fn = "aml_emit", !.sigctx.obj = o,
                                 !.sigctx.loop = l, !.sigctx.masked = TRUE])
    /\ Uncalled
    /\ UNCHANGED <<obs, thr, plan, now, pc, dl, cur, userRefs, quiet>>

\* aml_emit locks event_queue_mutex
ThreadEmitLock ==
    /\ ThreadRuns("emit_lock")
    /\ sigctx.event_queue_mutex = "free"
    /\ SetMem([Mem(NoEnv) EXCEPT !.sigctx.at = "emit_locked",
                                 !.sigctx.event_queue_mutex = "thread"])
    /\ Uncalled
    /\ UNCHANGED <<obs, thr, plan, now, pc, dl, cur, userRefs, quiet>>

\* aml_emit appends, takes the reference, unlocks and restores the mask
ThreadEmitUnlock ==
    /\ ThreadRuns("emit_locked")
    /\ sigctx.ref_mutex = "free"
    /\ LET returned(M) == SetMem(M) /\ Quiet(M, {}, {})
       IN  returned(aml_emit([Mem(NoEnv) EXCEPT !.sigctx = NoSig],
                             sigctx.loop, sigctx.obj, 0))
    /\ Uncalled
    /\ UNCHANGED <<obs, thr, plan, now, pc, dl, cur, userRefs>>

\* a signal with a started source is delivered to the thread, whose mask
\* does not block it: posix__signal_handler runs on its stack and calls
\* aml_emit(l, s, 0)
SignalDeliver(l, s) ==
    /\ fault = "none" /\ LiveLoop(l) /\ Live(s)
    /\ s \in be_sigs[l] /\ ref[s] < MaxRef
    /\ sigctx.hat = "none" /\ ~sigctx.masked
    /\ SetMem([Mem(NoEnv) EXCEPT !.sigctx.hat = "lock_queue",
                                 !.sigctx.sig = s, !.sigctx.loop = l])
    /\ Uncalled
    /\ UNCHANGED <<obs, thr, plan, now, pc, dl, cur, userRefs, quiet>>

\* the handler's aml_emit locks event_queue_mutex
HandlerLockQueue ==
    /\ fault = "none" /\ sigctx.hat = "lock_queue"
    /\ sigctx.event_queue_mutex = "free"
    /\ SetMem([Mem(NoEnv) EXCEPT !.sigctx.hat = "lock_ref",
                                 !.sigctx.event_queue_mutex = "handler"])
    /\ Uncalled
    /\ UNCHANGED <<obs, thr, plan, now, pc, dl, cur, userRefs, quiet>>

\* the handler's aml_emit appends and enters aml_ref, which locks
\* aml__ref_mutex
HandlerLockRef ==
    /\ fault = "none" /\ sigctx.hat = "lock_ref"
    /\ sigctx.ref_mutex = "free"
    /\ SetMem([Mem(NoEnv) EXCEPT !.sigctx.hat = "unlock",
                                 !.sigctx.ref_mutex = "handler"])
    /\ Uncalled
    /\ UNCHANGED <<obs, thr, plan, now, pc, dl, cur, userRefs, quiet>>

\* the handler's aml_emit unlocks both and the handler returns
HandlerReturn ==
    /\ fault = "none" /\ sigctx.hat = "unlock"
    /\ LET returned(M) == SetMem(M) /\ Quiet(M, {}, {})
       IN  returned(aml_emit(
               [Mem(NoEnv) EXCEPT !.sigctx.hat = "none",
                                  !.sigctx.sig = NULL,
                                  !.sigctx.loop = IF sigctx.at = "out"
                                                  THEN NULL ELSE @,
                                  !.sigctx.ref_mutex = "free",
                                  !.sigctx.event_queue_mutex = "free"],
               sigctx.loop, sigctx.sig, 0))
    /\ Called("emit", sigctx.loop, sigctx.sig, 0,
              IsQueued(sigctx.loop, sigctx.sig), TRUE)
    /\ UNCHANGED <<obs, thr, plan, now, pc, dl, cur, userRefs>>

\* the dispatch thread takes no mutex that the thread or the handler holds
MutexesFree ==
    sigctx.ref_mutex = "free" /\ sigctx.event_queue_mutex = "free"

NextSignal ==
    \/ MutexesFree /\ NewSource
    \/ \E l \in Obj, o \in Obj :
            MutexesFree /\ LiveSource(o) /\ Start(l, o, TRUE)
    \/ \E o \in Obj, fn \in {"aml_ref", "aml_unref"} : ThreadRefLock(o, fn)
    \/ ThreadRefUnlock
    \/ \E l \in Obj, o \in Obj : ThreadEmitMask(l, o)
    \/ ThreadEmitLock
    \/ ThreadEmitUnlock
    \/ \E l \in Obj, o \in Obj : SignalDeliver(l, o)
    \/ HandlerLockQueue
    \/ HandlerLockRef
    \/ HandlerReturn
    \/ \E l \in Obj : MutexesFree /\ DispatchBegin(l)
    \/ MutexesFree /\ DispatchDequeue
    \/ MutexesFree /\ CallbackReturn
    \/ MutexesFree /\ DispatchIdle

SpecSignal == InitSignal /\ [][NextSignal]_vars

TypeOK ==
    /\ \A o \in Obj : alloc[o] \in {"none", "live", "freed"}
    /\ fault \in {"none", "abort", "segv", "hang", "join"}
    /\ pc \in {"none", "drain", "cb", "idle", "idlecb", "poll"}

\* ---- what the claims speak of ----

\* the same in the state a step leads to
StartedAfter(l, o) == aml_is_started(Mem(NoEnv)', l, o)
IsQueuedAfter(l, o) == IsQueuedIn(Mem(NoEnv)', l, o)
Loops == {l \in Obj : type[l] = AML_OBJ_AML}
Sources == {o \in Obj : type[o] \in SourceKinds}
ZeroTimer(o) == type[o] = AML_OBJ_TIMER /\ timeout[o] = 0

\* C1: ref balance. A source is finalized at most once (free_fn runs at
\* most once) and its refcount never goes below zero, and once the user has
\* dropped every reference it owned on the source and the loop has been
\* destroyed, the source has been finalized.
C1_RefBalance ==
    \A o \in Sources :
        /\ nfree[o] <= 1
        /\ ref[o] >= 0
        /\ (userRefs[o] = 0 /\ (\A l \in Loops : alloc[l] = "freed")
                => nfree[o] = 1)

\* C2: stop cancels. No callback of a source is entered while aml_stop has
\* returned for it and aml_emit has not been called for it since.
C2_StopCancels ==
    [][(pc' \in {"cb", "idlecb"} /\ pc \in {"drain", "idle"})
          => ~quiet[cur']]_vars

\* C3: an aml_emit on a non-fd source that is already in the event queue
\* leaves the queue and the refcount of the source unchanged.
C3_EmitQueuedNoop ==
    [][(call'.op = "emit" /\ call'.pre
            /\ type[call'.obj] # AML_OBJ_HANDLER)
          => (ref' = ref /\ first' = first /\ last' = last
              /\ next' = next /\ prev' = prev)]_vars

\* some thread is between the critical section of the aml_unref that took
\* the last reference of o and the end of that aml_unref
Finalizing(o) ==
    \E t \in Threads : thr[t].at = "unref" /\ thr[t].obj = o /\ thr[t].r <= 0

RECURSIVE OwnedUpTo(_, _)
OwnedUpTo(o, t) == IF t = 0 THEN 0 ELSE thr[t].refs[o] + OwnedUpTo(o, t - 1)
\* the references to o the threads own
Owned(o) == OwnedUpTo(o, NThreads)

\* C4: upgrade safety. aml_try_ref returns NULL or an object that is
\* neither finalized nor being finalized and whose refcount it has raised:
\* an object some thread owns a reference to is live, no aml_unref is
\* finalizing it, and its refcount is the number of references owned; no
\* thread reads freed memory.
C4_UpgradeSafe ==
    /\ fault = "none" /\ ~uaf
    /\ call.op = "try_ref" /\ call.obj # NULL
          => (alloc[call.obj] = "live" /\ id[call.obj] = call.rc
              /\ Owned(call.obj) > 0)
    /\ \A o \in Obj : Owned(o) > 0
          => (alloc[o] = "live" /\ ~Finalizing(o) /\ ref[o] = Owned(o))

\* aml_try_ref has returned NULL for the id of a source another thread is
\* finalizing: its last reference is dropped, it is not yet freed
C4_Witness ==
    /\ call.op = "try_ref" /\ call.obj = NULL
    /\ \E o \in Sources : Finalizing(o) /\ alloc[o] = "live"
                            /\ id[o] = call.rc

\* C5 as stated: an aml_start that returns 0 raises the refcount by one and
\* leaves the source started; an aml_stop of a started source lowers the
\* refcount by one and leaves it not started.
C5_StartStopRefs ==
    [][/\ (call'.op = "start" /\ call'.rc = 0)
            => (ref'[call'.obj] = ref[call'.obj] + 1
                /\ StartedAfter(call'.loop, call'.obj))
       /\ (call'.op = "stop" /\ call'.pre)
            => (ref'[call'.obj] = ref[call'.obj] - 1
                /\ ~StartedAfter(call'.loop, call'.obj))]_vars

\* C5 amended: as C5, but a Timer of duration 0 is left not started by an
\* aml_start that returns 0 (the reference added is the event queue's).
C5_StartStopRefsAmended ==
    [][/\ (call'.op = "start" /\ call'.rc = 0)
            => (/\ ref'[call'.obj] = ref[call'.obj] + 1
                /\ StartedAfter(call'.loop, call'.obj) = ~ZeroTimer(call'.obj)
                /\ ZeroTimer(call'.obj) => IsQueuedAfter(call'.loop, call'.obj))
       /\ (call'.op = "stop" /\ call'.pre)
            => (ref'[call'.obj] = ref[call'.obj] - 1
                /\ ~StartedAfter(call'.loop, call'.obj))]_vars

\* aml_start has returned 0 for a Timer of duration 0: it is queued and not
\* started
C5_Witness ==
    /\ call.op = "start" /\ call.rc = 0
    /\ ZeroTimer(call.obj)
    /\ ~Started(call.loop, call.obj) /\ IsQueued(call.loop, call.obj)
    /\ ref[call.obj] = 2

\* C6: aml_start on a source that is started on the loop returns -1 and
\* changes nothing.
C6_StartTwice ==
    [][(call'.op = "start" /\ call'.pre)
          => (call'.rc = -1 /\ UNCHANGED memVars)]_vars

C6_Witness ==
    /\ call.op = "start" /\ call.pre /\ call.rc = -1
    /\ Started(call.loop, call.obj)

\* C7: a source is in the started list of at most one loop.
C7_OneLoop ==
    \A o \in Sources : \A a, b \in Loops :
        (alloc[a] = "live" /\ alloc[b] = "live"
         /\ Started(a, o) /\ Started(b, o)) => a = b

C9_StopReturn ==
    [][call'.op = "stop"
          => call'.rc = (IF call'.pre THEN 0 ELSE -1)]_vars

\* C10: when the kind-specific start action fails, aml_start returns -1, the
\* source is not started and its refcount is what it was.
StartActionFails(o) ==
    \/ type[o] = AML_OBJ_AML
    \/ type[o] \in {AML_OBJ_HANDLER, AML_OBJ_SIGNAL, AML_OBJ_WORK}
       /\ call'.op = "start" /\ ~call'.ok

C11_TimerOrder ==
    [][pc = "drain" /\ pc' = "cb" /\ obs.fired[cur'] >= 0
       => obs.fired[cur'] >= obs.last]_vars

\* a dispatch has entered the callbacks of two timers that expired in it at
\* different deadlines
C11_Witness ==
    /\ pc = "cb" /\ fault = "none"
    /\ \E o \in Sources : /\ o # cur /\ obs.cbs[o] > 0 /\ obs.cbs[cur] > 0
                           /\ obs.fired[o] >= 0
                           /\ obs.fired[o] < obs.fired[cur]

\* the objects that aml__obj_global_ref has given an id
Registered ==
    {o \in Obj : /\ alloc[o] # "none"
                 /\ \A t \in Threads : ~(thr[t].at = "new" /\ thr[t].obj = o)}

\* C12: the ids of the sources ever created, live or finalized, are pairwise
\* distinct, also when threads create sources concurrently.
C12_IdsDistinct ==
    \A o1 \in Registered, o2 \in Registered : o1 # o2 => id[o1] # id[o2]

\* two threads were creating sources at once (the ids are not in the order of
\* the allocations), and one of the two sources has been finalized
C12_Witness ==
    \E o1 \in Registered, o2 \in Registered :
        /\ o1 < o2 /\ id[o1] > id[o2]
        /\ alloc[o1] = "freed" /\ alloc[o2] = "live"

\* C13: id 0 is reserved: no source in the global id list has id 0, and
\* aml_try_ref(0) returns NULL.
C13_IdZeroReserved ==
    /\ \A o \in ListSet(Mem(NoEnv), "global", 0) :
            type[o] \in SourceKinds => id[o] # 0
    /\ call.op = "try_ref" /\ call.rc = 0 => call.obj = NULL

\* a one-shot timer of a duration above zero
OneShot(o) == type[o] = AML_OBJ_TIMER /\ timeout[o] > 0

\* C14: the callback of a one-shot Timer (duration > 0) is entered only in a
\* dispatch that found its deadline passed, and once in it; when that dispatch
\* ends the callback has run exactly once and, unless the timer was started
\* again, it is not started and the loop holds no reference to it.
C14_OneShotTimer ==
    [][/\ pc = "drain" /\ pc' = "cb" /\ OneShot(cur')
          => obs.fired[cur'] >= 0 /\ obs.cbs[cur'] = 0
       /\ pc = "idle" /\ pc' = "none"
          => \A o \in Sources :
                OneShot(o) /\ obs.fired[o] >= 0
                => /\ obs.cbs[o] = 1
                   /\ o \notin obs.again
                      => ~StartedAfter(dl, o) /\ ref'[o] = userRefs'[o]]_vars

\* a dispatch is about to end in which a one-shot timer expired, its callback
\* ran once, and the timer is stopped and held by the user alone
C14_Witness ==
    /\ pc = "idle" /\ cur = NULL /\ fault = "none"
    /\ \E o \in Sources :
          /\ OneShot(o) /\ obs.fired[o] >= 0 /\ obs.cbs[o] = 1
          /\ o \notin obs.again /\ ~Started(dl, o)
          /\ userRefs[o] > 0 /\ ref[o] = userRefs[o]

\* a ticker of a duration above zero
IsTicker(o) == type[o] = AML_OBJ_TICKER /\ timeout[o] > 0

\* C15: a Ticker of duration d > 0 that a dispatch emits had its deadline at
\* or before the time the dispatch sampled, stays started, and has its
\* deadline moved to d after the deadline it was emitted at; its n-th callback
\* since its start at t0 is not entered before t0 + n * d.
C15_TickerRearm ==
    [][/\ pc = "none" /\ pc' = "drain"
          => \A o \in Sources :
                IsTicker(o) /\ obs'.fired[o] >= 0
                => /\ obs'.fired[o] <= now
                   /\ StartedAfter(dl', o)
                   /\ deadline'[o] = obs'.fired[o] + timeout[o]
       /\ pc = "drain" /\ pc' = "cb" /\ IsTicker(cur')
          => now >= obs.t0[cur'] + obs'.ncb[cur'] * timeout[cur']]_vars

IsWork(o) == type[o] = AML_OBJ_WORK

\* a worker has run the work function of w and not yet emitted w
Unemitted(w) ==
    \E t \in Threads : pool.job[t].work = w /\ pool.at[t] \in {"try_ref", "emit"}

\* C16: the done callback of a Work is entered (in aml_dispatch) only after
\* its work function has returned, once for each run of the work function;
\* when a dispatch that ran the done callback ends, the Work is not started,
\* unless it was started again during the dispatch.
C16_WorkRoundTrip ==
    [][/\ pc = "drain" /\ pc' = "cb" /\ IsWork(cur')
          => obs'.ncb[cur'] <= pool.ran[cur']
       /\ pc = "idle" /\ pc' = "none"
          => \A w \in Sources :
                /\ IsWork(w) /\ ~Unemitted(w) /\ ~IsQueuedAfter(dl, w)
                   => obs.ncb[w] = pool.ran[w]
                /\ IsWork(w) /\ obs.cbs[w] >= 1 /\ w \notin obs.again
                   => ~StartedAfter(dl, w)]_vars

\* the worker threads that are running
Running == {t \in Threads : pool.at[t] \notin {"none", "exited", "join"}}

\* C20: when aml_require_workers(loop, n) has returned 0, at least n worker
\* threads of the default pool are running.
C20_WorkersRunning ==
    call.op = "require" /\ call.rc = 0 => Cardinality(Running) >= pool.asked


\* the dispatch thread of l is blocked in aml_poll(l, -1): posix_poll waits
\* for nfds to be set
PollBlocked(l) ==
    /\ pc = "poll" /\ run.loop = l /\ run.timeout = -1
    /\ posix_state[l].nfds = 0

\* the poller thread of l is in poll(), or on its way into it, with no signal
\* pending and no fd ready: it sets nfds only after a further event
PollerIdle(l) ==
    /\ posix_state[l].poller \in {"apply", "poll"}
    /\ ~be_intr[l]
    /\ posix_state[l].ready \cap be_fds[l] = {}

\* C17: after aml_interrupt(loop), the aml_poll(loop, -1) that is blocked or
\* entered next returns, whatever the poller thread was doing: there is no
\* state where the interrupt is still owed, the poll waits and nothing that
\* has happened will wake it
C17_InterruptWakes ==
    \A l \in Obj : ~(run.owed /\ PollBlocked(l) /\ PollerIdle(l))

\* C18: after aml_exit(loop), from a callback or from another thread while
\* aml_run is blocked in aml_poll(loop, -1), aml_run returns: there is no
\* state where the exit flag is set and aml_run waits in a poll that nothing
\* that has happened will wake
C18_ExitEndsRun ==
    \A l \in Obj :
        ~(run.at = "poll" /\ do_exit[l] /\ PollBlocked(l) /\ PollerIdle(l))

\* C19: aml_poll returns -1 when a timeout or a signal ends it and the
\* number of pending events, which is positive, otherwise; it never returns 0
C19_PollReturn ==
    call.op = "poll" => call.rc = -1 \/ call.rc > 0


\* C21: within a dispatch the callbacks run in the order in which aml_emit
\* appended the sources to the event queue, those emitted during the drain
\* included, and the drain ends only when every emit has been dispatched
C21_FifoDispatch ==
    [][/\ pc = "drain" /\ pc' = "cb"
          => hist.fifo[dl] # <<>> /\ cur' = Head(hist.fifo[dl])
       /\ pc = "drain" /\ pc' = "idle" => hist.fifo[dl] = <<>>]_vars


\* the timers and tickers started on l
Timers(l) == ListSet(Mem(NoEnv), "timer", l)

\* C22: in a dispatch every expired timer is emitted before any queued
\* callback runs and its callback runs in the queue drain of that dispatch;
\* no queued callback runs once the idle callbacks have begun; and the
\* backend's post_dispatch comes last, after the idle callbacks
C22_PhaseOrder ==
    [][/\ pc = "none" /\ pc' = "drain"
          => /\ \A t \in Timers(dl') :
                    deadline[t] <= now => obs'.fired[t] >= 0
             /\ \A o \in Obj : obs'.cbs[o] = 0
       /\ pc = "drain" /\ pc' = "idle"
          => \A t \in Obj : obs.fired[t] >= 0 => obs.cbs[t] > 0
       /\ pc \in {"idle", "idlecb"} => pc' \in {"idle", "idlecb", "none"}
       /\ \A l \in Obj :
             posix_state[l].waiting_for_dispatch
             /\ ~posix_state'[l].waiting_for_dispatch
             => pc = "idle" /\ pc' = "none" /\ cur = NULL]_vars

\* an idle callback runs in a dispatch whose timer callback has run, while
\* the poller thread waits for the dispatch to end
C22_Witness ==
    /\ pc = "idlecb"
    /\ posix_state[dl].waiting_for_dispatch
    /\ \E t \in Obj : obs.fired[t] >= 0 /\ obs.cbs[t] > 0


\* C23: when aml_dispatch returns and timers are started, the deadline last
\* given to the backend is the smallest deadline of the started timers,
\* whatever the callbacks of the pass have started or stopped
C23_DeadlineRearm ==
    [][pc = "idle" /\ pc' = "none" /\ Timers(dl) # {}
       => /\ \E t \in Timers(dl) : be_deadline'[dl] = deadline[t]
          /\ \A t \in Timers(dl) : be_deadline'[dl] <= deadline[t]]_vars


\* the emits of o that q holds
Emits(q, o) == Cardinality({i \in 1..Len(q) : q[i] = o})

\* C24: aml_start of a Timer of duration 0 returns 0, leaves it out of the
\* started list and the timer list and once in the event queue, and leaves
\* the backend's deadline alone; its callback is then entered once in the
\* next dispatch, which leaves it queued no more
C24_ZeroTimer ==
    [][/\ call'.op = "start" /\ ZeroTimer(call'.obj) /\ fault' = "none"
          => /\ call'.rc = 0
             /\ ~StartedAfter(call'.loop, call'.obj)
             /\ call'.obj \notin ListSet(Mem(NoEnv)', "timer", call'.loop)
             /\ Emits(hist'.fifo[call'.loop], call'.obj) = 1
             /\ be_deadline' = be_deadline
       /\ pc = "drain" /\ pc' = "cb" /\ ZeroTimer(cur')
          /\ cur' \notin obs.again
          => obs.cbs[cur'] = 0
       /\ pc = "drain" /\ pc' = "idle"
          => \A o \in Obj : Live(o) /\ ZeroTimer(o) => ~IsQueued(dl, o)]_vars


\* a live handler
IsHandler(h) == Live(h) /\ type[h] = AML_OBJ_HANDLER

\* C25: whatever is emitted for a handler between two dispatches, it is in
\* the event queue once, so that the next dispatch enters its callback once;
\* during the callback its revents are the bitwise or of what was emitted
\* since they were last cleared, and they are 0 when the callback has returned
C25_FdCoalescing ==
    [][/\ \A l \in Obj, h \in Obj :
             IsHandler(h) /\ fault' = "none"
             => Emits(hist'.fifo[l], h) <= 1
       /\ pc = "drain" /\ pc' = "cb" /\ IsHandler(cur') /\ fault' = "none"
          => revents'[cur'] = hist'.mask[cur']
       /\ pc = "cb" /\ pc' = "drain" /\ IsHandler(cur) /\ alloc'[cur] = "live"
          => revents'[cur] = 0]_vars


\* worker t goes from one place of worker_fn to the next
WorkerStep(t, from, to) == pool.at[t] = from /\ pool.at'[t] = to

\* C26: a worker never calls the work function of a Work that has been
\* finalized, nor reads, emits or stops one, whether the Work was stopped and
\* unreferenced or its loop destroyed while the entry was queued or the work
\* function running
C26_WorkerIsolation ==
    [][\A t \in Threads :
          \/ WorkerStep(t, "fn", "try_ref")
          \/ WorkerStep(t, "emit", "stop")
          \/ WorkerStep(t, "stop", "interrupt")
          => alloc[pool.job[t].work] = "live"]_vars


\* C27: an aml_emit run by a signal handler never waits for a mutex that the
\* thread it interrupted holds, wherever that thread was interrupted
C27_EmitFromSignal ==
    /\ ~(sigctx.hat = "lock_queue" /\ sigctx.event_queue_mutex = "thread")
    /\ ~(sigctx.hat = "lock_ref" /\ sigctx.ref_mutex = "thread")


\* the pool has worker threads and every one of them has exited
AllExited ==
    pool.n_threads > 0 /\ \A t \in 1..pool.n_threads : pool.at[t] = "exited"

\* C28: when the last user has released the pool, no worker is left that can
\* never take the entry without work (reap_threads is not run by a worker,
\* which would join itself); no entry is run twice, and when the workers
\* have exited no entry of work is left in front of that one.
C28_PoolShutdown ==
    /\ fault = "join" => \A t \in Threads : pool.at[t] # "join"
    /\ \A w \in Obj : hist.enq[w] <= MaxWork => pool.ran[w] <= hist.enq[w]
    /\ fault = "join" /\ AllExited
          => pool.queue # <<>> /\ Head(pool.queue).work = NULL


\* the live loops that have acquired the pool
PoolUsers == {l \in Obj : LiveLoop(l) /\ pool.have[l]}

\* C29: between calls, the user count of the pool is the number of live loops
\* that have acquired it, however often each has asked for workers; with no
\* such loop left the workers have been shut down.
C29_PoolUserCount ==
    fault = "none"
        => /\ pool.users = Cardinality(PoolUsers)
           /\ PoolUsers = {} => Running = {}


\* the place of a step of aml__free in the order of the teardown
Place(step) ==
    CASE step = "stop" -> 1 [] step = "release" -> 2
      [] step = "del_state" -> 3 [] step = "drop" -> 4 [] step = "free" -> 5

\* how often a step occurs in a log
Steps(log, step) == Cardinality({i \in 1..Len(log) : log[i] = step})

\* the sources in the started list of l
StartedOn(l) == {o \in Obj : Started(l, o)}

\* C30: the steps of the teardown of a loop come in this order: what is
\* still started is stopped and removed, the pool is released if and only if
\* the loop has acquired it, the backend state is destroyed, what is still
\* queued is dropped, the loop is freed, and a teardown that has begun gets
\* that far unless it waits for the workers; a step of the teardown invokes
\* no callback.
C30_TeardownOrder ==
    [][\A l \in Obj :
         LET log == hist'.down[l]
             done(step) == Steps(log, step) > 0
         IN  /\ \A i \in 1..Len(log), j \in 1..Len(log) :
                    i < j => Place(log[i]) <= Place(log[j])
             /\ \A step \in {"release", "del_state", "free"} :
                    Steps(log, step) <= 1
             /\ hist.down[l] = <<>> /\ log # <<>> /\ fault' \in {"none", "join"}
                    => /\ Steps(log, "stop") = Cardinality(StartedOn(l))
                       /\ first'["obj"][l] = NULL
                       /\ first'["timer"][l] = NULL /\ first'["idle"][l] = NULL
                       /\ be_sigs'[l] = {}
                       /\ done("release") <=> pool.have[l]
             /\ done("del_state")
                    => /\ be_fds'[l] = {} /\ ~be_alive'[l]
                       /\ done("release") <=> pool.have[l]
             /\ log # <<>> /\ fault' # "join" => done("free")
             /\ done("free")
                    => /\ done("del_state") /\ alloc'[l] = "freed"
                       /\ first'["event"][l] = NULL
             /\ log # hist.down[l]
                    => obs'.cbs = obs.cbs /\ pc' = pc /\ cur' = cur]_vars


\* C31: the walk of the idle list enters the callback of an idle source that
\* is still started and not finalized, leaves it started, and steps on from
\* an idle source that has not been finalized, also when the callback has
\* stopped the source and dropped it.
C31_IdleWalk ==
    [][/\ pc = "idle" /\ pc' = "idlecb"
          => /\ alloc[cur] = "live" /\ Started(dl, cur)
             /\ fault' = "none" => StartedAfter(dl, cur)
       /\ pc = "idlecb" /\ pc' = "idle" => alloc[cur] = "live"
       /\ pc = "idlecb" => fault' \notin {"segv", "abort"}]_vars


\* the started lists, timer lists and idle lists of the loops
LoopLists ==
    [n \in {"obj", "timer", "idle"} |-> <<first[n], next[n], prev[n]>>]

\* C32: a step of a worker thread leaves the started list, the timer list and
\* the idle list of every loop as they are, its aml_stop of the work
\* included.
C32_DispatchThreadLists ==
    [][(\E t \in Threads : pool.at'[t] # pool.at[t]) => LoopLists' = LoopLists]_vars


\* C33: aml_stop(l, o) with o a loop object aborts the process.
C33_StopLoopAborts ==
    [][call'.op = "stop" /\ type[call'.obj] = AML_OBJ_AML
          => fault' = "abort"]_vars

\* C34: the revents the posix backend passes to aml_emit for a ready fd hold
\* the Read bit exactly when poll() reported POLLIN or POLLPRI and the Write
\* bit exactly when it reported POLLOUT, and that mapping takes the poll
\* request mask of a handler back to the event mask it was built from.
C34_PosixEventMapping ==
    [][\A l \in Obj :
         \A h \in Obj :
            (/\ posix_state[l].poller = "poll"
             /\ posix_state'[l].poller = "wake"
             /\ h \in posix_state[l].ready \cap be_fds[l]
             /\ revents[h] = 0 /\ fault' = "none" /\ ~uaf')
            => /\ Bit(revents'[h], AML_EVENT_READ)
                    <=> \/ Bit(posix_state[l].revents[h], POLLIN)
                        \/ Bit(posix_state[l].revents[h], POLLPRI)
               /\ Bit(revents'[h], AML_EVENT_WRITE)
                    <=> Bit(posix_state[l].revents[h], POLLOUT)
               /\ posix_poll_events_to_aml_events(
                      posix_get_event_mask(Mem(NoEnv), h)) = event_mask[h]]_vars

\* C35: no readiness is lost. A started handler for which aml_emit was called
\* with non-zero revents, and whose callback has not begun since, is in the
\* event queue or still inside the callback during which the emit landed: no
\* state is reached in which only a further emit could bring the callback.
C35_NoLostReadiness ==
    \A l \in Loops :
        \A h \in hist.owed :
            (fault = "none" /\ ~uaf /\ Live(l) /\ Started(l, h))
                => IsQueued(l, h) \/ (pc = "cb" /\ cur = h)

\* the handlers started on l in the state a step leads to
StartedHandlersAfter(l) ==
    {h \in Obj : type'[h] = AML_OBJ_HANDLER /\ StartedAfter(l, h)}

\* C36: the backend fd registration calls are issued only for started
\* handlers. A step calls aml__mod_fd only for a handler that is started
\* after it, and after every step the handlers registered with the backend
\* of a loop are the handlers started on it.
C36_RegisteredIsStarted ==
    [][(fault' = "none" /\ ~uaf')
          => /\ \A h \in hist'.modfd \ hist.modfd :
                    \E l \in Obj : StartedAfter(l, h)
             /\ \A l \in Obj :
                    alloc'[l] = "live" /\ type'[l] = AML_OBJ_AML
                        => be_fds'[l] = StartedHandlersAfter(l)]_vars

\* the members of the list T of loop l
Members(T, l) == ListSet(Mem(NoEnv), T, l)

\* C37: no dangling membership. Every source that is a member of the started
\* list, the timer set, the idle list or the event queue of a loop has a
\* refcount of at least one and has not been finalized; a timer or ticker is
\* in the timer set exactly when it is in the started list, and an idle
\* source is in the idle list exactly when it is in the started list.
C37_NoDanglingMembership ==
    \A l \in Loops :
        (fault = "none" /\ Live(l))
            => /\ \A T \in {"obj", "timer", "idle", "event"} :
                    \A o \in Members(T, l) :
                        ref[o] >= 1 /\ alloc[o] = "live" /\ nfree[o] = 0
               /\ \A o \in Obj :
                    /\ type[o] \in {AML_OBJ_TIMER, AML_OBJ_TICKER}
                        => (o \in Members("timer", l) <=> Started(l, o))
                    /\ type[o] = AML_OBJ_IDLE
                        => (o \in Members("idle", l) <=> Started(l, o))

\* C38: the shutdown of the thread pool is never executed by one of its
\* workers. The aml_unref with which a worker drops its upgraded reference
\* of the loop takes no step of the loop's teardown, and the worker does not
\* end up in pthread_join.
C38_WorkerNoTeardown ==
    [][\A t \in Threads :
          (pool.at[t] = "unref" /\ pool.at'[t] # "unref")
              => /\ hist'.down = hist.down
                 /\ pool.at'[t] # "join"
                 /\ pool.joiner' = pool.joiner]_vars

\* C39: the poller handshake. Once the poller thread has handed a poll
\* result to the dispatch thread it does not go on to apply fd ops and poll
\* again before posix_poll has consumed that result and posix_post_dispatch
\* has been called: when it leaves its wait in posix_wake_up_main, the result
\* it handed over has been taken (nfds is 0 again).
C39_PollerHandshake ==
    [][\A l \in Obj :
          (posix_state[l].poller = "wait" /\ posix_state'[l].poller = "apply")
              => posix_state[l].nfds = 0]_vars

\* the timers and tickers started on l in the state a step leads to
TimersAfter(l) == ListSet(Mem(NoEnv)', "timer", l)

\* C40: with every ticker of a duration above 0, the timer drain of
\* aml_dispatch ends, and when it has ended every timer left in the timer
\* set has a deadline after the time sampled at the start of the dispatch:
\* the assertion earliest->deadline > now does not fail.
C40_TimerDrain ==
    [][(/\ pc = "none" /\ pc' = "drain"
        /\ \A t \in Timers(dl') : type[t] = AML_OBJ_TICKER => timeout[t] > 0)
          => /\ fault' \notin {"hang", "abort"}
             /\ fault' = "none"
                    => \A t \in TimersAfter(dl') : deadline'[t] > now]_vars

\* a dispatch has drained the timers: a ticker that had expired two periods
\* ago was emitted and is left in the timer set with a later deadline
C40_Witness ==
    /\ pc = "drain" /\ fault = "none" /\ ~uaf
    /\ \E t \in Timers(dl) :
            /\ type[t] = AML_OBJ_TICKER /\ timeout[t] > 0
            /\ obs.fired[t] >= 0
            /\ deadline[t] > now /\ deadline[t] >= obs.t0[t] + 3 * timeout[t]

====
